---- MODULE Spec2Model ----
(***************************************************************************)
(* A model of forecast_skill/skills/get_weather.py: the daily aggregation  *)
(* of 3-hour forecast samples (get_multi_day_forecast) and the activity    *)
(* scorer (calculate_activity_score and its four sub-scores, the rating    *)
(* text), the activity analysis and a run of main from the command line to *)
(* the object it prints.                                                    *)
(*                                                                          *)
(* Numbers.  The program computes in floating point; the model computes    *)
(* the same expressions exactly, over integers:                             *)
(*   - a day summary's temp_high_c, temp_low_c, wind_kph and precip_mm     *)
(*     carry one decimal (round(x, 1)) and are held in tenths;             *)
(*   - a sample's temperature is held in hundredths of a degree, its wind  *)
(*     speed in hundredths of m/s, its precipitation in hundredths of mm   *)
(*     and its probability of precipitation in hundredths;                 *)
(*   - a sub-score s in [0,1] is the integer s * ScoreDen, and a score in  *)
(*     [0,100] is the integer score * ScoreDen.                            *)
(* A float result differs from the exact one by rounding error in its last *)
(* bits; where that error decides an outcome (a value half way between two *)
(* roundings) the model allows both outcomes.                              *)
(* Strings the program inspects character by character (lower(), the       *)
(* substring test, the ISO date) are sequences of one-character strings.   *)
(***************************************************************************)
EXTENDS Integers, Sequences, FiniteSets, TLC

VARIABLES
    ACTIVITY_PROFILES,  \* the module-level registry of activity profiles
    pc,                 \* position of the running request
    num_days,           \* the requested day count
    forecast,           \* the upstream answer: the "list" of 3-hour samples
    forecasts,          \* what get_multi_day_forecast returned
    utc_offset,         \* the local time zone's offset from UTC, in seconds
    frame,              \* the scorer call being evaluated: arguments, locals, result
    prev,               \* the scorer call evaluated before it
    requests,           \* the upstream endpoints fetch_json was called on, in order
    stdout,             \* the JSON objects printed so far
    result              \* what the request's handler returned

vars == <<ACTIVITY_PROFILES, pc, num_days, forecast, forecasts, utc_offset, frame, prev,
          requests, stdout, result>>

-----------------------------------------------------------------------------
(* Arithmetic helpers (Python's abs, max, min on two numbers).             *)

Abs(x) == IF x < 0 THEN -x ELSE x

Max(a, b) == IF a >= b THEN a ELSE b

Min(a, b) == IF a <= b THEN a ELSE b

(* The common denominator of every sub-score the program can produce from  *)
(* inputs with one decimal: 2^5 * 3 * 5^4 * 7 * 11.  Each divisor used     *)
(* below (50 * ideal_range, 200, 250, 50 * max_wind, 10 * max_wind, 100,   *)
(* 150, 250, 500, 10) divides it, so every \div on it is exact.            *)
ScoreDen == 32 * 3 * 625 * 7 * 11

-----------------------------------------------------------------------------
(* Strings as sequences of characters.                                     *)

UpperChars == <<"A","B","C","D","E","F","G","H","I","J","K","L","M",
                "N","O","P","Q","R","S","T","U","V","W","X","Y","Z">>

LowerChars == <<"a","b","c","d","e","f","g","h","i","j","k","l","m",
                "n","o","p","q","r","s","t","u","v","w","x","y","z">>

\* str.lower() on one character
LowerChar(c) ==
    IF \E i \in 1..26 : UpperChars[i] = c
    THEN LowerChars[CHOOSE i \in 1..26 : UpperChars[i] = c]
    ELSE c

\* str.lower()
Lower(s) == [i \in 1..Len(s) |-> LowerChar(s[i])]

\* Python's  sub in s  on strings
Contains(s, sub) ==
    \E i \in 0..(Len(s) - Len(sub)) :
        \A j \in 1..Len(sub) : s[i + j] = sub[j]

-----------------------------------------------------------------------------
(* The registry.  ideal_temp_range, max_wind_kph and max_precip_rain are   *)
(* in whole degrees, km/h and mm as written in the source; the factor      *)
(* weights are in hundredths (0.25 is 25).                                 *)

Keys == {"skiing", "picnic", "hiking", "gardening", "beach", "cycling",
         "outdoor", "sports"}

Skiing ==
    [name |-> <<"S","k","i","i","n","g">>,
     ideal_temp_range |-> <<-15, 10>>, max_wind_kph |-> 40, max_precip_rain |-> 5,
     min_precip_snow |-> 0,
     factors |-> [temperature |-> 25, wind |-> 15, precipitation |-> 35,
                  conditions |-> 25]]

Picnic ==
    [name |-> <<"P","i","c","n","i","c">>,
     ideal_temp_range |-> <<10, 35>>, max_wind_kph |-> 30, max_precip_rain |-> 2,
     max_humidity |-> 85,
     factors |-> [temperature |-> 20, wind |-> 15, precipitation |-> 40,
                  conditions |-> 25]]

Hiking ==
    [name |-> <<"H","i","k","i","n","g">>,
     ideal_temp_range |-> <<0, 35>>, max_wind_kph |-> 50, max_precip_rain |-> 8,
     factors |-> [temperature |-> 20, wind |-> 15, precipitation |-> 35,
                  conditions |-> 30]]

Gardening ==
    [name |-> <<"G","a","r","d","e","n","i","n","g">>,
     ideal_temp_range |-> <<0, 40>>, max_wind_kph |-> 35,
     ideal_humidity_range |-> <<30, 90>>,
     factors |-> [temperature |-> 15, wind |-> 15, precipitation |-> 45,
                  conditions |-> 25]]

Beach ==
    [name |-> <<"B","e","a","c","h"," ","D","a","y">>,
     ideal_temp_range |-> <<18, 40>>, max_wind_kph |-> 35, max_precip_rain |-> 1,
     max_humidity |-> 85,
     factors |-> [temperature |-> 30, wind |-> 15, precipitation |-> 35,
                  conditions |-> 20]]

\* The cycling profile with its wind weight lowered and nothing raised.
CyclingDrift ==
    [name |-> <<"C","y","c","l","i","n","g">>,
     ideal_temp_range |-> <<0, 35>>, max_wind_kph |-> 40, max_precip_rain |-> 3,
     factors |-> [temperature |-> 20, wind |-> 25, precipitation |-> 30,
                  conditions |-> 20]]

Cycling ==
    [name |-> <<"C","y","c","l","i","n","g">>,
     ideal_temp_range |-> <<0, 35>>, max_wind_kph |-> 40, max_precip_rain |-> 3,
     factors |-> [temperature |-> 20, wind |-> 30, precipitation |-> 30,
                  conditions |-> 20]]

Outdoor ==
    [name |-> <<"O","u","t","d","o","o","r"," ","A","c","t","i","v","i","t","y">>,
     ideal_temp_range |-> <<5, 30>>, max_wind_kph |-> 35, max_precip_rain |-> 3,
     factors |-> [temperature |-> 25, wind |-> 20, precipitation |-> 35,
                  conditions |-> 20]]

Sports ==
    [name |-> <<"O","u","t","d","o","o","r"," ","S","p","o","r","t","s">>,
     ideal_temp_range |-> <<0, 35>>, max_wind_kph |-> 40, max_precip_rain |-> 2,
     factors |-> [temperature |-> 20, wind |-> 25, precipitation |-> 35,
                  conditions |-> 20]]

\* The dictionary literal bound to ACTIVITY_PROFILES when the module is loaded.
ProfileTable ==
    [k \in Keys |->
      CASE k = "skiing" -> Skiing
        [] k = "picnic" -> Picnic
        [] k = "hiking" -> Hiking
        [] k = "gardening" -> Gardening
        [] k = "beach" -> Beach
        [] k = "cycling" -> Cycling
        [] k = "outdoor" -> Outdoor
        [] k = "sports" -> Sports]

\* dict.get(key, default) on a profile
Get(profile, key, default) ==
    IF key \in DOMAIN profile THEN profile[key] ELSE default

-----------------------------------------------------------------------------
(* The scorer.  temp, wind_kph and precip_mm are in tenths; every result   *)
(* is a multiple of 1/ScoreDen.                                            *)

\* The decline outside the ideal range without its floor at 0.
calculate_temperature_score_nofloor(temp, profile) ==
    LET min_temp == profile.ideal_temp_range[1]
        max_temp == profile.ideal_temp_range[2]
        ideal_range == max_temp - min_temp
    IN  IF 10 * min_temp <= temp /\ temp <= 10 * max_temp
        THEN ScoreDen - Abs(2 * temp - 10 * (min_temp + max_temp))
                            * (ScoreDen \div (50 * ideal_range))
        ELSE IF temp < 10 * min_temp
        THEN ScoreDen - (10 * min_temp - temp) * (ScoreDen \div 200)
        ELSE ScoreDen - (temp - 10 * max_temp) * (ScoreDen \div 250)

(* In range: 1.0 - (|temp - center| / (ideal_range / 2)) * 0.2, which with *)
(* temp = T/10 is 1 - |2T - 10 (min + max)| / (50 ideal_range).  Below:    *)
(* max(0, 1 - (min - temp) / 20) = max(0, 1 - (10 min - T) / 200).  Above: *)
(* max(0, 1 - (temp - max) / 25) = max(0, 1 - (T - 10 max) / 250).         *)
calculate_temperature_score(temp, profile) ==
    LET min_temp == profile.ideal_temp_range[1]
        max_temp == profile.ideal_temp_range[2]
        ideal_range == max_temp - min_temp
    IN  IF 10 * min_temp <= temp /\ temp <= 10 * max_temp
        THEN ScoreDen - Abs(2 * temp - 10 * (min_temp + max_temp))
                            * (ScoreDen \div (50 * ideal_range))
        ELSE IF temp < 10 * min_temp
        THEN Max(0, ScoreDen - (10 * min_temp - temp) * (ScoreDen \div 200))
        ELSE Max(0, ScoreDen - (temp - 10 * max_temp) * (ScoreDen \div 250))

\* The decline beyond the maximum starting again from the full score.
calculate_wind_score_restart(wind_kph, profile) ==
    LET max_wind == Get(profile, "max_wind_kph", 50)
    IN  IF wind_kph <= 5 * max_wind
        THEN ScoreDen
        ELSE IF wind_kph <= 10 * max_wind
        THEN ScoreDen - 3 * (wind_kph - 5 * max_wind) * (ScoreDen \div (50 * max_wind))
        ELSE Max(0, ScoreDen
                    - (wind_kph - 10 * max_wind) * (ScoreDen \div (10 * max_wind)))

(* wind <= max_wind * 0.5 is W <= 5 max_wind for wind = W/10.  Up to the   *)
(* maximum: 1 - ((wind - max/2) / (max/2)) * 0.3                            *)
(* = 1 - 3 (W - 5 max) / (50 max).  Beyond it:                              *)
(* max(0, 0.7 - (wind - max) / max) = max(0, 7/10 - (W - 10 max)/(10 max)).*)
calculate_wind_score(wind_kph, profile) ==
    LET max_wind == Get(profile, "max_wind_kph", 50)
    IN  IF wind_kph <= 5 * max_wind
        THEN ScoreDen
        ELSE IF wind_kph <= 10 * max_wind
        THEN ScoreDen - 3 * (wind_kph - 5 * max_wind) * (ScoreDen \div (50 * max_wind))
        ELSE Max(0, 7 * (ScoreDen \div 10)
                    - (wind_kph - 10 * max_wind) * (ScoreDen \div (10 * max_wind)))

\* The gardening branch testing the amount before the probability.
calculate_precipitation_score_amount_first(day, profile) ==
    LET precip == day.precip_mm
        precip_prob == day.precip_probability
        max_rain == Get(profile, "max_precip_rain", 2)
        base_score ==
            IF precip <= 5 * max_rain THEN 9 * (ScoreDen \div 10)
            ELSE IF precip <= 10 * max_rain THEN 7 * (ScoreDen \div 10)
            ELSE Max(ScoreDen \div 10,
                     6 * (ScoreDen \div 10)
                     - (precip - 10 * max_rain) * (ScoreDen \div 150))
        prob_penalty == precip_prob * (ScoreDen \div 500)
    IN  IF "min_precip_snow" \in DOMAIN profile
           /\ day.condition_main = "Snow"
        THEN Min(ScoreDen, 6 * (ScoreDen \div 10) + precip * (ScoreDen \div 100))
        ELSE IF Contains(Lower(profile.name), <<"g","a","r","d","e","n","i","n","g">>)
        THEN IF precip > 0
             THEN 7 * (ScoreDen \div 10)
                  + Min(2 * (ScoreDen \div 10), precip * (ScoreDen \div 100))
             ELSE IF precip_prob > 70
             THEN 7 * (ScoreDen \div 10) - precip_prob * (ScoreDen \div 250)
             ELSE 6 * (ScoreDen \div 10)
        ELSE Max(ScoreDen \div 10, base_score - prob_penalty)

\* The probability penalty ten times as large and the result without its floor.
calculate_precipitation_score_steep(day, profile) ==
    LET precip == day.precip_mm
        precip_prob == day.precip_probability
        max_rain == Get(profile, "max_precip_rain", 2)
        base_score ==
            IF precip <= 5 * max_rain THEN 9 * (ScoreDen \div 10)
            ELSE IF precip <= 10 * max_rain THEN 7 * (ScoreDen \div 10)
            ELSE Max(ScoreDen \div 10,
                     6 * (ScoreDen \div 10)
                     - (precip - 10 * max_rain) * (ScoreDen \div 150))
        prob_penalty == precip_prob * (ScoreDen \div 50)
    IN  IF "min_precip_snow" \in DOMAIN profile
           /\ day.condition_main = "Snow"
        THEN Min(ScoreDen, 6 * (ScoreDen \div 10) + precip * (ScoreDen \div 100))
        ELSE IF Contains(Lower(profile.name), <<"g","a","r","d","e","n","i","n","g">>)
        THEN IF precip_prob > 70
             THEN 7 * (ScoreDen \div 10) - precip_prob * (ScoreDen \div 250)
             ELSE IF precip > 0
             THEN 7 * (ScoreDen \div 10)
                  + Min(2 * (ScoreDen \div 10), precip * (ScoreDen \div 100))
             ELSE 6 * (ScoreDen \div 10)
        ELSE base_score - prob_penalty

(* precip = P/10 mm, precip_prob in percent.                               *)
(*   snow branch: min(1, 0.6 + precip / 10) = min(1, 6/10 + P/100);        *)
(*   gardening:   0.3 + 0.4 (1 - prob/100) = 7/10 - prob/250,              *)
(*                0.7 + min(0.2, precip / 10), 0.6;                        *)
(*   otherwise:   base 0.9 / 0.7 / max(0.1, 0.6 - (precip - max_rain)/15)  *)
(*                less prob/500, floored at 0.1.                           *)
calculate_precipitation_score(day, profile) ==
    LET precip == day.precip_mm
        precip_prob == day.precip_probability
        max_rain == Get(profile, "max_precip_rain", 2)
        base_score ==
            IF precip <= 5 * max_rain THEN 9 * (ScoreDen \div 10)
            ELSE IF precip <= 10 * max_rain THEN 7 * (ScoreDen \div 10)
            ELSE Max(ScoreDen \div 10,
                     6 * (ScoreDen \div 10)
                     - (precip - 10 * max_rain) * (ScoreDen \div 150))
        prob_penalty == precip_prob * (ScoreDen \div 500)
    IN  IF "min_precip_snow" \in DOMAIN profile
           /\ day.condition_main = "Snow"
        THEN Min(ScoreDen, 6 * (ScoreDen \div 10) + precip * (ScoreDen \div 100))
        ELSE IF Contains(Lower(profile.name), <<"g","a","r","d","e","n","i","n","g">>)
        THEN IF precip_prob > 70
             THEN 7 * (ScoreDen \div 10) - precip_prob * (ScoreDen \div 250)
             ELSE IF precip > 0
             THEN 7 * (ScoreDen \div 10)
                  + Min(2 * (ScoreDen \div 10), precip * (ScoreDen \div 100))
             ELSE 6 * (ScoreDen \div 10)
        ELSE Max(ScoreDen \div 10, base_score - prob_penalty)

\* The lookup table, in tenths; an unknown category gets 0.5.
calculate_condition_score(condition_main, profile) ==
    LET tenths ==
          CASE condition_main = "Clear" -> 10
            [] condition_main = "Clouds" -> 8
            [] condition_main = "Rain" -> 3
            [] condition_main = "Snow" ->
                 IF Contains(Lower(profile.name), <<"s","k","i","i","n","g">>)
                 THEN 9 ELSE 4
            [] condition_main = "Thunderstorm" -> 0
            [] condition_main = "Drizzle" -> 5
            [] condition_main = "Mist" -> 6
            [] condition_main = "Fog" -> 4
            [] OTHER -> 5
    IN  tenths * (ScoreDen \div 10)

\* The four sub-scores added without their weights and without the clamp.
calculate_activity_score_unweighted(day, profile) ==
    100 * ( calculate_temperature_score(day.temp_high_c, profile)
          + calculate_wind_score(day.wind_kph, profile)
          + calculate_precipitation_score(day, profile)
          + calculate_condition_score(day.condition_main, profile) )

(* (sum of sub-score * weight) * 100, clamped to [0, 100].  With the       *)
(* weights in hundredths the sum of sub-score * weight is the score times  *)
(* ScoreDen.                                                                *)
calculate_activity_score(day, profile) ==
    LET temp_score == calculate_temperature_score(day.temp_high_c, profile)
        wind_score == calculate_wind_score(day.wind_kph, profile)
        precip_score == calculate_precipitation_score(day, profile)
        condition_score == calculate_condition_score(day.condition_main, profile)
        factors == profile.factors
        total_score == temp_score * factors.temperature
                       + wind_score * factors.wind
                       + precip_score * factors.precipitation
                       + condition_score * factors.conditions
    IN  Max(0, Min(100 * ScoreDen, total_score))

\* The bands with exclusive lower bounds.
get_rating_text_exclusive(score) ==
    IF score > 80 * ScoreDen THEN "Excellent"
    ELSE IF score > 60 * ScoreDen THEN "Good"
    ELSE IF score > 40 * ScoreDen THEN "Fair"
    ELSE IF score > 20 * ScoreDen THEN "Poor"
    ELSE "Not Recommended"

get_rating_text(score) ==
    IF score >= 80 * ScoreDen THEN "Excellent"
    ELSE IF score >= 60 * ScoreDen THEN "Good"
    ELSE IF score >= 40 * ScoreDen THEN "Fair"
    ELSE IF score >= 20 * ScoreDen THEN "Poor"
    ELSE "Not Recommended"

-----------------------------------------------------------------------------
(* Rounding.  round(x) and round(x, 1) on a float return the nearest       *)
(* integer or tenth.  When the exact value lies half way, the result       *)
(* depends on the float: a value the float holds exactly is rounded to the *)
(* even neighbour; otherwise the float lies a little above or a little     *)
(* below the half, which the integers of the model do not tell, and tie    *)
(* says which ("up", "down").                                              *)

\* num / den (den > 0) rounded to the nearest integer
Round(num, den, tie) ==
    LET floor == num \div den
        twice == 2 * (num % den)
    IN  IF twice < den THEN floor
        ELSE IF twice > den THEN floor + 1
        ELSE IF tie = "up" THEN floor + 1
        ELSE IF tie = "down" THEN floor
        ELSE IF floor % 2 = 0 THEN floor ELSE floor + 1

\* hundredths of a degree that a float holds exactly: x.00, x.25, x.50, x.75
ExactHundredths(h) == h % 25 = 0

\* round(temp, 1), in tenths, of a temperature in hundredths
RoundTemp(h, tie) == Round(h, 10, IF ExactHundredths(h) THEN "even" ELSE tie)

-----------------------------------------------------------------------------
(* Calendar dates.  datetime.date.fromtimestamp(dt) is the local date of   *)
(* the instant dt; offset is the local zone's offset in seconds.       *)

SecondsPerDay == 24 * 60 * 60

\* the proleptic Gregorian date <<year, month, day>> of a day number counted
\* from 1970-01-01
CivilFromDays(days) ==
    LET z == days + 719468
        era == z \div 146097
        doe == z - era * 146097
        yoe == (doe - doe \div 1460 + doe \div 36524 - doe \div 146096) \div 365
        doy == doe - (365 * yoe + yoe \div 4 - yoe \div 100)
        mp == (5 * doy + 2) \div 153
        d == doy - (153 * mp + 2) \div 5 + 1
        m == IF mp < 10 THEN mp + 3 ELSE mp - 9
        y == yoe + era * 400 + (IF m <= 2 THEN 1 ELSE 0)
    IN  <<y, m, d>>

\* the day number of the local date of dt
LocalDay(dt, offset) == (dt + offset) \div SecondsPerDay

fromtimestamp(dt, offset) == CivilFromDays(LocalDay(dt, offset))

DigitChars == <<"0","1","2","3","4","5","6","7","8","9">>

Digit(n) == DigitChars[n + 1]

\* "%02d" and "%04d"
TwoDigits(n) == <<Digit((n \div 10) % 10), Digit(n % 10)>>

FourDigits(n) == TwoDigits(n \div 100) \o TwoDigits(n % 100)

\* date.isoformat(): YYYY-MM-DD
isoformat(date) ==
    FourDigits(date[1]) \o <<"-">> \o TwoDigits(date[2]) \o <<"-">> \o TwoDigits(date[3])

DayNames == <<"Monday", "Tuesday", "Wednesday", "Thursday", "Friday", "Saturday",
              "Sunday">>

MonthNames == <<"January", "February", "March", "April", "May", "June", "July",
                "August", "September", "October", "November", "December">>

\* date.strftime("%A, %B %d"); 1970-01-01 was a Thursday
strftime(days) ==
    LET date == CivilFromDays(days)
    IN  <<DayNames[((days + 3) % 7) + 1], ", ", MonthNames[date[2]], " ">>
        \o TwoDigits(date[3])

\* the code point of a character of an ISO date
CharCode(c) ==
    IF c = "-" THEN 45
    ELSE 47 + (CHOOSE i \in 1..10 : DigitChars[i] = c)

\* a < b on strings: by code point at the first difference, a proper prefix first
StrLess(a, b) ==
    \/ \E i \in 1..Min(Len(a), Len(b)) :
          /\ \A j \in 1..(i - 1) : a[j] = b[j]
          /\ CharCode(a[i]) < CharCode(b[i])
    \/ /\ Len(a) < Len(b)
       /\ \A j \in 1..Len(a) : a[j] = b[j]

RECURSIVE SortedStrs(_)
\* sorted(S) for a set S of distinct strings
SortedStrs(S) ==
    IF S = {} THEN <<>>
    ELSE LET least == CHOOSE x \in S : \A y \in S : x = y \/ StrLess(x, y)
         IN  <<least>> \o SortedStrs(S \ {least})

\* A slice that yields nothing when fewer than n elements are there.
SliceToStrict(seq, n) ==
    IF n > Len(seq) THEN <<>> ELSE SubSeq(seq, 1, Max(n, 0))

\* seq[:n]
SliceTo(seq, n) ==
    LET stop == IF n >= 0 THEN Min(n, Len(seq)) ELSE Max(Len(seq) + n, 0)
    IN  SubSeq(seq, 1, stop)

-----------------------------------------------------------------------------
(* get_multi_day_forecast.  A sample (an item of forecast["list"]) is      *)
(*   [dt, temp, weather, humidity, speed, pop, rain, snow]                 *)
(* with dt in seconds, temp in hundredths of a degree, weather the first   *)
(* entry of item["weather"] (main, description), speed in hundredths of    *)
(* m/s, pop in hundredths, rain and snow the 3-hour amounts in hundredths  *)
(* of mm (0 when the item has none).                                       *)

date_str(item, offset) == isoformat(fromtimestamp(item.dt, offset))

RECURSIVE GroupByDate(_, _)
(* daily_summaries after the loop over the list: keys holds the dates in   *)
(* insertion order (each at its first sample), items[i] the samples        *)
(* appended under keys[i], in the order of the list.                       *)
GroupByDate(list, offset) ==
    IF list = <<>> THEN [keys |-> <<>>, items |-> <<>>]
    ELSE LET before == GroupByDate(SubSeq(list, 1, Len(list) - 1), offset)
             item == list[Len(list)]
             key == date_str(item, offset)
         IN  IF \E i \in 1..Len(before.keys) : before.keys[i] = key
             THEN LET i == CHOOSE i \in 1..Len(before.keys) : before.keys[i] = key
                  IN  [before EXCEPT !.items[i] = Append(@, item)]
             ELSE [keys |-> Append(before.keys, key),
                   items |-> Append(before.items, <<item>>)]

\* daily_summaries[key]
DayItems(daily_summaries, key) ==
    daily_summaries.items[CHOOSE i \in 1..Len(daily_summaries.keys) :
                              daily_summaries.keys[i] = key]

\* The keys taken in insertion order, without sorting them.
sorted_dates_unsorted(daily_summaries, n) ==
    SliceTo(daily_summaries.keys, n)

\* sorted(daily_summaries.keys())[:num_days]
sorted_dates(daily_summaries, n) ==
    LET keys == daily_summaries.keys
    IN  SliceTo(SortedStrs({keys[i] : i \in 1..Len(keys)}), n)

\* The first element instead of the largest.
MaxOfFirst(seq) == seq[1]

\* max(seq) of a non-empty list of numbers
MaxOf(seq) ==
    CHOOSE x \in {seq[i] : i \in 1..Len(seq)} :
        \A i \in 1..Len(seq) : seq[i] <= x

\* min(seq)
MinOf(seq) ==
    CHOOSE x \in {seq[i] : i \in 1..Len(seq)} :
        \A i \in 1..Len(seq) : x <= seq[i]

RECURSIVE SumOf(_)
\* sum(seq)
SumOf(seq) ==
    IF seq = <<>> THEN 0 ELSE seq[1] + SumOf(Tail(seq))

\* condition_mains.count(main)
CountOf(mains, main) == Cardinality({i \in 1..Len(mains) : mains[i] = main})

(* max(set(condition_mains), key=condition_mains.count) returns the first  *)
(* element, in the iteration order of the set, whose count is the largest. *)
(* The iteration order of a set of strings follows their hashes, which     *)
(* differ from one run of the interpreter to the next: any condition with  *)
(* the largest count can be the one returned.                              *)
MostCommonMains(mains) ==
    {m \in {mains[i] : i \in 1..Len(mains)} :
        \A i \in 1..Len(mains) : CountOf(mains, mains[i]) <= CountOf(mains, m)}

\* next(c for c in conditions if c["main"] == most_common_main)
FirstWithMain(conditions, main) ==
    conditions[CHOOSE i \in 1..Len(conditions) :
                  /\ conditions[i].main = main
                  /\ \A j \in 1..(i - 1) : conditions[j].main # main]

\* one entry of forecasts: the summary of the samples items of the date key,
\* with most_common_main the condition max() returned
DaySummary(key, items, most_common_main, tie, offset) ==
    LET temps == [i \in 1..Len(items) |-> items[i].temp]
        conditions == [i \in 1..Len(items) |-> items[i].weather]
        humidity_values == [i \in 1..Len(items) |-> items[i].humidity]
        wind_speeds == [i \in 1..Len(items) |-> items[i].speed]
        precip_amounts == [i \in 1..Len(items) |-> items[i].rain + items[i].snow]
        precip_probs == [i \in 1..Len(items) |-> items[i].pop]
        most_common_condition == FirstWithMain(conditions, most_common_main)
    IN  [date |-> key,
         date_formatted |-> strftime(LocalDay(items[1].dt, offset)),
         temp_high_c |-> RoundTemp(MaxOf(temps), tie),
         temp_high_f |-> Round(9 * MaxOf(temps) + 16000, 50, tie),
         temp_low_c |-> RoundTemp(MinOf(temps), tie),
         temp_low_f |-> Round(9 * MinOf(temps) + 16000, 50, tie),
         condition |-> most_common_condition.description,
         condition_main |-> most_common_condition.main,
         humidity |-> Round(SumOf(humidity_values), Len(humidity_values), "even"),
         wind_kph |-> Round(9 * SumOf(wind_speeds), 25 * Len(wind_speeds), tie),
         precip_mm |-> Round(SumOf(precip_amounts), 10, tie),
         precip_probability |-> Round(100 * MaxOf(precip_probs), 100, tie),
         uv_index |-> 0]

-----------------------------------------------------------------------------
(* The texts.  An f-string is the concatenation of its literal parts and   *)
(* of str() of its values; a number with one decimal prints as its sign,   *)
(* the digits of its integer part, a point and the decimal.                *)

RECURSIVE Digits(_)
\* the decimal digits of a natural number
Digits(n) == IF n < 10 THEN <<Digit(n)>> ELSE Digits(n \div 10) \o <<Digit(n % 10)>>

\* str(x) of the float x = tenths / 10
StrTenths(tenths) ==
    (IF tenths < 0 THEN <<"-">> ELSE <<>>)
    \o Digits(Abs(tenths) \div 10) \o <<".">> \o <<Digit(Abs(tenths) % 10)>>

\* The amount of rain compared before the temperature.
get_main_concern_rain_first(day, profile) ==
    LET temp == day.temp_high_c
        wind == day.wind_kph
        precip == day.precip_mm
        min_temp == profile.ideal_temp_range[1]
        max_temp == profile.ideal_temp_range[2]
    IN  IF precip > 10 * Get(profile, "max_precip_rain", 0)
        THEN <<"r","a","i","n"," ","e","x","p","e","c","t","e","d"," ","(">>
             \o StrTenths(precip) \o <<"m","m",")">>
        ELSE IF temp < 10 * min_temp
        THEN <<"t","o","o"," ","c","o","l","d"," ","(">> \o StrTenths(temp) \o <<"°","C",")">>
        ELSE IF temp > 10 * max_temp
        THEN <<"t","o","o"," ","h","o","t"," ","(">> \o StrTenths(temp) \o <<"°","C",")">>
        ELSE IF wind > 10 * Get(profile, "max_wind_kph", 50)
        THEN <<"t","o","o"," ","w","i","n","d","y"," ","(">> \o StrTenths(wind)
             \o <<" ","k","m","/","h",")">>
        ELSE <<"m","a","r","g","i","n","a","l"," ","c","o","n","d","i","t","i","o","n","s">>

(* The comfort bounds are compared in the order temperature (cold, hot),   *)
(* precipitation, wind; temp, wind and precip are in tenths.  A profile    *)
(* without max_precip_rain has 0 for it here.                              *)
get_main_concern(day, profile) ==
    LET temp == day.temp_high_c
        wind == day.wind_kph
        precip == day.precip_mm
        min_temp == profile.ideal_temp_range[1]
        max_temp == profile.ideal_temp_range[2]
    IN  IF temp < 10 * min_temp
        THEN <<"t","o","o"," ","c","o","l","d"," ","(">> \o StrTenths(temp) \o <<"°","C",")">>
        ELSE IF temp > 10 * max_temp
        THEN <<"t","o","o"," ","h","o","t"," ","(">> \o StrTenths(temp) \o <<"°","C",")">>
        ELSE IF precip > 10 * Get(profile, "max_precip_rain", 0)
        THEN <<"r","a","i","n"," ","e","x","p","e","c","t","e","d"," ","(">>
             \o StrTenths(precip) \o <<"m","m",")">>
        ELSE IF wind > 10 * Get(profile, "max_wind_kph", 50)
        THEN <<"t","o","o"," ","w","i","n","d","y"," ","(">> \o StrTenths(wind)
             \o <<" ","k","m","/","h",")">>
        ELSE <<"m","a","r","g","i","n","a","l"," ","c","o","n","d","i","t","i","o","n","s">>

\* The "Fair" text without the concern.
generate_day_recommendation_no_concern(day, profile, score) ==
    LET temp == day.temp_high_c
        condition == day.condition
    IN  IF score >= 80 * ScoreDen
        THEN <<"E","x","c","e","l","l","e","n","t"," ","c","o","n","d",
               "i","t","i","o","n","s","!"," ">>
             \o StrTenths(temp) \o <<"°","C",","," ">> \o Lower(condition)
             \o <<","," ","l","i","g","h","t"," ","w","i","n","d","s",".">>
        ELSE IF score >= 60 * ScoreDen
        THEN <<"G","o","o","d"," ","c","o","n","d","i","t","i","o","n",
               "s","."," ">> \o StrTenths(temp)
             \o <<"°","C"," ","w","i","t","h"," ">> \o Lower(condition) \o <<".">>
        ELSE IF score >= 40 * ScoreDen
        THEN <<"F","a","i","r"," ","c","o","n","d","i","t","i","o","n",
               "s","."," ","W","a","t","c","h"," ","f","o","r"," ">>
             \o <<"t","h","e"," ","w","e","a","t","h","e","r",".">>
        ELSE <<"N","o","t"," ","r","e","c","o","m","m","e","n","d","e",
               "d","."," ">> \o get_main_concern(day, profile) \o <<".">>

(* The text of one day, chosen by the score: from 80, from 60, from 40,    *)
(* below 40.  temp is in tenths, score a multiple of 1/ScoreDen.           *)
generate_day_recommendation(day, profile, score) ==
    LET temp == day.temp_high_c
        condition == day.condition
    IN  IF score >= 80 * ScoreDen
        THEN <<"E","x","c","e","l","l","e","n","t"," ","c","o","n","d",
               "i","t","i","o","n","s","!"," ">>
             \o StrTenths(temp) \o <<"°","C",","," ">> \o Lower(condition)
             \o <<","," ","l","i","g","h","t"," ","w","i","n","d","s",".">>
        ELSE IF score >= 60 * ScoreDen
        THEN <<"G","o","o","d"," ","c","o","n","d","i","t","i","o","n",
               "s","."," ">> \o StrTenths(temp)
             \o <<"°","C"," ","w","i","t","h"," ">> \o Lower(condition) \o <<".">>
        ELSE IF score >= 40 * ScoreDen
        THEN <<"F","a","i","r"," ","c","o","n","d","i","t","i","o","n",
               "s","."," ","W","a","t","c","h"," ","f","o","r"," ">>
             \o get_main_concern(day, profile) \o <<".">>
        ELSE <<"N","o","t"," ","r","e","c","o","m","m","e","n","d","e",
               "d","."," ">> \o get_main_concern(day, profile) \o <<".">>

\* The first daily score taken for the average.
MeanOfFirst(scores) ==
    [num |-> IF Len(scores) = 0 THEN 0 ELSE scores[1], den |-> 1]

(* sum(scores) / len(scores) if scores else 0, as the fraction num / den   *)
(* of two integers (den = len(scores), or 1 for an empty list).            *)
MeanOf(scores) ==
    [num |-> SumOf(scores), den |-> IF Len(scores) = 0 THEN 1 ELSE Len(scores)]

\* avg_score >= points, for a whole number of points
AtLeast(avg_score, points) == avg_score.num >= points * ScoreDen * avg_score.den

\* The period's text chosen by the thresholds of the rating (80, 60, 40).
generate_overall_recommendation_rating_bands(profile, scores, daily_recs) ==
    LET avg_score == MeanOf(scores)
        activity_name == Lower(profile.name)
    IN  IF AtLeast(avg_score, 80)
        THEN <<"G","r","e","a","t"," ","p","e","r","i","o","d"," ","f",
               "o","r"," ">> \o activity_name
             \o <<"!"," ","M","o","s","t"," ","d","a","y","s"," ","h","a",
               "v","e"," ","e","x","c","e","l","l","e","n","t"," ","c",
               "o","n","d","i","t","i","o","n","s",".">>
        ELSE IF AtLeast(avg_score, 60)
        THEN <<"G","o","o","d"," ","p","e","r","i","o","d"," ","f","o",
               "r"," ">> \o activity_name
             \o <<"."," ","C","h","o","o","s","e"," ","t","h","e"," ","b",
               "e","t","t","e","r"," ","d","a","y","s"," ","f","r","o",
               "m"," ","t","h","e"," ","f","o","r","e","c","a","s","t",
               ".">>
        ELSE IF AtLeast(avg_score, 40)
        THEN <<"M","i","x","e","d"," ","c","o","n","d","i","t","i","o",
               "n","s"," ","f","o","r"," ">> \o activity_name
             \o <<"."," ","P","l","a","n"," ","a","r","o","u","n","d"," ",
               "t","h","e"," ","w","e","a","t","h","e","r",".">>
        ELSE <<"P","o","o","r"," ","p","e","r","i","o","d"," ","f","o",
               "r"," ">> \o activity_name
             \o <<"."," ","C","o","n","s","i","d","e","r"," ","p","o","s",
               "t","p","o","n","i","n","g"," ","o","r"," ","i","n","d",
               "o","o","r"," ","a","l","t","e","r","n","a","t","i","v",
               "e","s",".">>

generate_overall_recommendation(profile, scores, daily_recs) ==
    LET avg_score == MeanOf(scores)
        activity_name == Lower(profile.name)
    IN  IF AtLeast(avg_score, 75)
        THEN <<"G","r","e","a","t"," ","p","e","r","i","o","d"," ","f",
               "o","r"," ">> \o activity_name
             \o <<"!"," ","M","o","s","t"," ","d","a","y","s"," ","h","a",
               "v","e"," ","e","x","c","e","l","l","e","n","t"," ","c",
               "o","n","d","i","t","i","o","n","s",".">>
        ELSE IF AtLeast(avg_score, 60)
        THEN <<"G","o","o","d"," ","p","e","r","i","o","d"," ","f","o",
               "r"," ">> \o activity_name
             \o <<"."," ","C","h","o","o","s","e"," ","t","h","e"," ","b",
               "e","t","t","e","r"," ","d","a","y","s"," ","f","r","o",
               "m"," ","t","h","e"," ","f","o","r","e","c","a","s","t",
               ".">>
        ELSE IF AtLeast(avg_score, 40)
        THEN <<"M","i","x","e","d"," ","c","o","n","d","i","t","i","o",
               "n","s"," ","f","o","r"," ">> \o activity_name
             \o <<"."," ","P","l","a","n"," ","a","r","o","u","n","d"," ",
               "t","h","e"," ","w","e","a","t","h","e","r",".">>
        ELSE <<"P","o","o","r"," ","p","e","r","i","o","d"," ","f","o",
               "r"," ">> \o activity_name
             \o <<"."," ","C","o","n","s","i","d","e","r"," ","p","o","s",
               "t","p","o","n","i","n","g"," ","o","r"," ","i","n","d",
               "o","o","r"," ","a","l","t","e","r","n","a","t","i","v",
               "e","s",".">>

-----------------------------------------------------------------------------
(* analyze_weather_for_activity.                                           *)

\* Python's None
None == [is_none |-> TRUE]

\* round(x, 2), in hundredths of a point, of the score x = num / (den * ScoreDen)
RoundScore(num, den, tie) == Round(num, den * (ScoreDen \div 100), tie)

\* scores after the loop over forecast_data
ScoresOf(forecast_data, profile) ==
    [i \in 1..Len(forecast_data) |-> calculate_activity_score(forecast_data[i], profile)]

\* recommendations after the loop
RecommendationsOf(forecast_data, profile, scores) ==
    [i \in 1..Len(forecast_data) |->
        generate_day_recommendation(forecast_data[i], profile, scores[i])]

\* max(enumerate(forecast_data), key=...)[0]: the first index of a largest score
BestIndex(scores) ==
    CHOOSE i \in 1..Len(scores) :
        /\ \A j \in 1..Len(scores) : scores[j] <= scores[i]
        /\ \A j \in 1..(i - 1) : scores[j] < scores[i]

(* get_rating_text(avg_score): avg_score >= b for a whole number b exactly *)
(* when the whole part of avg_score is >= b, so the rating of the fraction *)
(* is the rating of num \div den.                                          *)
RatingOfMean(avg_score) == get_rating_text(avg_score.num \div avg_score.den)

\* the dictionary returned for a known activity_key
Analysis(profile, forecast_data, scores, recommendations, avg_score, tie) ==
    [activity |-> profile.name,
     overall_score |-> RoundScore(avg_score.num, avg_score.den, tie),
     overall_rating |-> RatingOfMean(avg_score),
     best_day |->
        IF Len(scores) = 0 THEN None
        ELSE LET best == BestIndex(scores)
             IN  [date |-> forecast_data[best].date,
                  date_formatted |-> forecast_data[best].date_formatted,
                  score |-> RoundScore(scores[best], 1, tie),
                  rating |-> get_rating_text(scores[best])],
     daily_analysis |->
        [i \in 1..Len(forecast_data) |->
            [date |-> forecast_data[i].date,
             date_formatted |-> forecast_data[i].date_formatted,
             score |-> RoundScore(scores[i], 1, tie),
             rating |-> get_rating_text(scores[i]),
             recommendation |-> recommendations[i]]],
     overall_recommendation |->
        generate_overall_recommendation(profile, scores, recommendations)]

analyze_weather_for_activity(activity_key, forecast_data, tie) ==
    IF activity_key \notin DOMAIN ACTIVITY_PROFILES THEN None
    ELSE LET profile == ACTIVITY_PROFILES[activity_key]
             scores == ScoresOf(forecast_data, profile)
             recommendations == RecommendationsOf(forecast_data, profile, scores)
             avg_score == MeanOf(scores)
         IN  Analysis(profile, forecast_data, scores, recommendations, avg_score, tie)

-----------------------------------------------------------------------------
(* The forecast request: the upstream answer arrives and is aggregated.    *)

NoFrame == [fn |-> "none"]

\* no handler has returned yet
NoResult == [none |-> TRUE]

MaxSamples == 3

\* The day counts a caller passes: int(sys.argv[...]) is any integer, and 5
\* when the argument is absent.
NumDaysSet == {-1, 0, 1, 2, 3, 5}

\* UTC and a zone nine hours ahead of it
UtcOffsets == {0, 9 * 60 * 60}

\* 2026-02-08 21:00, 2026-02-09 21:00 and 2026-02-10 03:00 UTC: three dates in
\* UTC; nine hours ahead, the 9th at 06:00 and the 10th at 06:00 and 12:00
DtSet == {1770584400, 1770670800, 1770692400}

\* 19.96 and 20.14 degrees
TempSet == {1996, 2014}

\* what the upstream reports together: a dry clear sky, or light rain
WeatherKinds ==
    {[weather |-> [main |-> "Clear",
                   description |-> <<"c","l","e","a","r"," ","s","k","y">>],
      humidity |-> 40, speed |-> 350, pop |-> 0, rain |-> 0, snow |-> 0],
     [weather |-> [main |-> "Rain",
                   description |-> <<"l","i","g","h","t"," ","r","a","i","n">>],
      humidity |-> 91, speed |-> 1125, pop |-> 80, rain |-> 126, snow |-> 0]}

SampleSet ==
    {[dt |-> dt, temp |-> temp, weather |-> w.weather, humidity |-> w.humidity,
      speed |-> w.speed, pop |-> w.pop, rain |-> w.rain, snow |-> w.snow] :
        dt \in DtSet, temp \in TempSet, w \in WeatherKinds}

\* forecast.get("list", []): up to MaxSamples samples, in any order
ForecastLists == UNION {[1..n -> SampleSet] : n \in 0..MaxSamples}

Init ==
    /\ ACTIVITY_PROFILES = ProfileTable
    /\ pc = "start"
    /\ num_days \in NumDaysSet
    /\ forecast = <<>>
    /\ forecasts = <<>>
    /\ utc_offset \in UtcOffsets
    /\ frame = NoFrame
    /\ prev = NoFrame
    /\ requests = <<>>
    /\ stdout = <<>>
    /\ result = NoResult

\* the upstream answers with the list of samples
get_forecast ==
    /\ pc = "start"
    /\ forecast' \in ForecastLists
    /\ requests' = Append(requests, "forecast")
    /\ pc' = "fetched"
    /\ UNCHANGED <<ACTIVITY_PROFILES, num_days, forecasts, utc_offset, frame, prev,
                 stdout, result>>

\* the summaries of the dates, given what max() and round() returned
Summaries(daily_summaries, dates, most_common_main, tie, offset) ==
    [i \in 1..Len(dates) |->
        DaySummary(dates[i], DayItems(daily_summaries, dates[i]),
                   most_common_main[i], tie, offset)]

\* for each date, the conditions max() can return
MostCommon(daily_summaries, dates) ==
    [i \in 1..Len(dates) |->
        LET items == DayItems(daily_summaries, dates[i])
        IN  MostCommonMains([j \in 1..Len(items) |-> items[j].weather.main])]

(* Each value is bound once (\E x \in {e}) and used from there on, as the  *)
(* function computes it once.                                              *)
get_multi_day_forecast ==
    /\ pc = "fetched"
    /\ \E daily_summaries \in {GroupByDate(forecast, utc_offset)} :
       \E dates \in {sorted_dates(daily_summaries, num_days)} :
       \E most_common \in {MostCommon(daily_summaries, dates)} :
       \E tie \in {"up", "down"} :
       \E most_common_main \in [1..Len(dates) -> {"Clear", "Rain"}] :
          /\ \A i \in 1..Len(dates) : most_common_main[i] \in most_common[i]
          /\ forecasts' = Summaries(daily_summaries, dates, most_common_main, tie,
                                    utc_offset)
    /\ pc' = "aggregated"
    /\ UNCHANGED <<ACTIVITY_PROFILES, num_days, forecast, utc_offset, frame, prev,
                 requests, stdout, result>>

Next == get_forecast \/ get_multi_day_forecast

Spec == Init /\ [][Next]_vars

-----------------------------------------------------------------------------
(* The scorer applied to inputs drawn from bounded sets.                   *)

\* temp_high_c in tenths of a degree: far below, at, inside, at and far above
\* every profile's ideal range
TempTenths == {-450, -351, -350, -151, -150, 0, 100, 175, 220, 350, 351, 400,
               651, 900}

\* wind_kph in tenths: calm, around half and all of the profiles' maxima, storm
WindTenths == {0, 150, 175, 200, 300, 350, 351, 500, 1200}

\* precip_mm in tenths
PrecipTenths == {0, 5, 10, 25, 40, 50, 81, 2000}

\* precip_probability in percent
ProbPercents == {0, 70, 71, 100}

\* condition_main: the eight categories of the table and one outside it
Conditions == {"Clear", "Clouds", "Rain", "Snow", "Thunderstorm", "Drizzle",
               "Mist", "Fog", "Haze"}

DaySet ==
    [temp_high_c : TempTenths, wind_kph : WindTenths, precip_mm : PrecipTenths,
     precip_probability : ProbPercents, condition_main : Conditions]

\* a dry, clear day of 22 degrees with a wind of 10 km/h, at every probability
\* of precipitation round(max(precip_probs) * 100) can give
ExampleDays ==
    [temp_high_c : {220}, wind_kph : {100}, precip_mm : {0},
     precip_probability : 0..100, condition_main : {"Clear"}]

\* calculate_activity_score(day, ACTIVITY_PROFILES[key]) with its locals
ScoreFrame(key, day) ==
    LET profile == ACTIVITY_PROFILES[key]
    IN  [fn |-> "calculate_activity_score", key |-> key, day |-> day,
         temp_score |-> calculate_temperature_score(day.temp_high_c, profile),
         wind_score |-> calculate_wind_score(day.wind_kph, profile),
         precip_score |-> calculate_precipitation_score(day, profile),
         condition_score |-> calculate_condition_score(day.condition_main, profile),
         score |-> calculate_activity_score(day, profile)]

InitScore ==
    /\ ACTIVITY_PROFILES = ProfileTable
    /\ pc = "start"
    /\ num_days = 0
    /\ forecast = <<>>
    /\ forecasts = <<>>
    /\ utc_offset = 0
    /\ frame = NoFrame
    /\ prev = NoFrame
    /\ requests = <<>>
    /\ stdout = <<>>
    /\ result = NoResult

\* analyze_weather_for_activity's loop body on one day: the profile is looked
\* up by key and the day is scored against it
ScoreDay ==
    /\ pc = "start"
    /\ \E key \in DOMAIN ACTIVITY_PROFILES, day \in DaySet \cup ExampleDays :
          frame' = ScoreFrame(key, day)
    /\ pc' = "scored"
    /\ UNCHANGED <<ACTIVITY_PROFILES, num_days, forecast, forecasts, utc_offset, prev,
                 requests, stdout, result>>

NextScore == ScoreDay

SpecScore == InitScore /\ [][NextScore]_vars

-----------------------------------------------------------------------------
(* get_rating_text applied to scores drawn from a bounded set: every tenth *)
(* of a point from 0 to 100, and the nearest scores on either side of each *)
(* threshold.                                                              *)

Thresholds == {20, 40, 60, 80}

ScoreGrid ==
    {k * (ScoreDen \div 10) : k \in 0..1000}
    \cup {b * ScoreDen - 1 : b \in Thresholds}
    \cup {b * ScoreDen + 1 : b \in Thresholds}

RateScore ==
    /\ pc = "start"
    /\ \E score \in ScoreGrid :
          frame' = [fn |-> "get_rating_text", score |-> score,
                    rating |-> get_rating_text(score)]
    /\ pc' = "rated"
    /\ UNCHANGED <<ACTIVITY_PROFILES, num_days, forecast, forecasts, utc_offset, prev,
                 requests, stdout, result>>

NextRating == RateScore

SpecRating == InitScore /\ [][NextRating]_vars

-----------------------------------------------------------------------------
(* calculate_wind_score applied twice to the same profile: a first wind    *)
(* speed, then a second one.                                                *)

MaxWindTenths == 1200

\* every 2.5 km/h up to the bound, and the tenths next to half and all of each
\* profile's max_wind_kph
WindGrid ==
    {w \in 0..MaxWindTenths :
        \/ w % 25 = 0
        \/ \E k \in Keys :
              \/ Abs(w - 10 * ProfileTable[k].max_wind_kph) <= 1
              \/ Abs(w - 5 * ProfileTable[k].max_wind_kph) <= 1}

WindFrame(key, wind_kph) ==
    [fn |-> "calculate_wind_score", key |-> key, wind_kph |-> wind_kph,
     wind_score |-> calculate_wind_score(wind_kph, ACTIVITY_PROFILES[key])]

FirstWind ==
    /\ pc = "start"
    /\ \E key \in DOMAIN ACTIVITY_PROFILES, w \in WindGrid :
          frame' = WindFrame(key, w)
    /\ pc' = "first"
    /\ UNCHANGED <<ACTIVITY_PROFILES, num_days, forecast, forecasts, utc_offset, prev,
                 requests, stdout, result>>

\* all else held fixed, the wind speed changes
SecondWind ==
    /\ pc = "first"
    /\ \E w \in WindGrid : frame' = WindFrame(frame.key, w)
    /\ prev' = frame
    /\ pc' = "second"
    /\ UNCHANGED <<ACTIVITY_PROFILES, num_days, forecast, forecasts, utc_offset,
                 requests, stdout, result>>

NextWind == FirstWind \/ SecondWind

SpecWind == InitScore /\ [][NextWind]_vars

-----------------------------------------------------------------------------
(* detect_activity.  The two tables are dictionaries, which iterate in the *)
(* order their entries are written; each is a sequence here.               *)

activity_keywords ==
    <<
      [activity |-> "skiing",
       keywords |-> <<
           <<"s","k","i">>,
           <<"s","k","i","i","n","g">>,
           <<"s","l","o","p","e","s">>,
           <<"p","o","w","d","e","r">>,
           <<"s","n","o","w","b","o","a","r","d">>,
           <<"s","n","o","w","b","o","a","r","d","i","n","g">>,
           <<"a","l","p","i","n","e">>,
           <<"n","o","r","d","i","c">>>>],
      [activity |-> "picnic",
       keywords |-> <<
           <<"p","i","c","n","i","c">>,
           <<"o","u","t","d","o","o","r"," ","l","u","n","c","h">>,
           <<"p","a","r","k"," ","m","e","a","l">>,
           <<"b","b","q">>,
           <<"b","a","r","b","e","c","u","e">>,
           <<"o","u","t","d","o","o","r"," ","d","i","n","i","n","g">>>>],
      [activity |-> "hiking",
       keywords |-> <<
           <<"h","i","k","e">>,
           <<"h","i","k","i","n","g">>,
           <<"t","r","a","i","l">>,
           <<"t","r","e","k">>,
           <<"t","r","e","k","k","i","n","g">>,
           <<"w","a","l","k">>,
           <<"w","a","l","k","i","n","g">>,
           <<"r","a","m","b","l","i","n","g">>,
           <<"b","u","s","h","w","a","l","k","i","n","g">>>>],
      [activity |-> "gardening",
       keywords |-> <<
           <<"g","a","r","d","e","n">>,
           <<"g","a","r","d","e","n","i","n","g">>,
           <<"p","l","a","n","t">>,
           <<"p","l","a","n","t","i","n","g">>,
           <<"w","a","t","e","r"," ","g","a","r","d","e","n">>,
           <<"y","a","r","d"," ","w","o","r","k">>,
           <<"l","a","n","d","s","c","a","p","i","n","g">>,
           <<"w","e","e","d","i","n","g">>>>],
      [activity |-> "beach",
       keywords |-> <<
           <<"b","e","a","c","h">>,
           <<"s","w","i","m","m","i","n","g">>,
           <<"s","u","n","b","a","t","h","i","n","g">>,
           <<"s","e","a","s","i","d","e">>,
           <<"c","o","a","s","t","a","l">>,
           <<"s","u","r","f">>,
           <<"s","u","r","f","i","n","g">>>>],
      [activity |-> "cycling",
       keywords |-> <<
           <<"c","y","c","l","i","n","g">>,
           <<"b","i","k","e">>,
           <<"b","i","k","i","n","g">>,
           <<"b","i","c","y","c","l","e">>,
           <<"r","o","a","d"," ","b","i","k","e">>,
           <<"m","o","u","n","t","a","i","n"," ","b","i","k","e">>,
           <<"c","y","c","l","e">>>>],
      [activity |-> "outdoor",
       keywords |-> <<
           <<"o","u","t","d","o","o","r"," ","a","c","t","i","v","i","t","y">>,
           <<"o","u","t","s","i","d","e">>,
           <<"o","u","t","d","o","o","r"," ","e","v","e","n","t">>,
           <<"o","u","t","d","o","o","r"," ","w","o","r","k">>,
           <<"o","u","t","d","o","o","r"," ","f","u","n">>>>],
      [activity |-> "sports",
       keywords |-> <<
           <<"s","p","o","r","t">>,
           <<"s","p","o","r","t","s">>,
           <<"g","a","m","e">>,
           <<"m","a","t","c","h">>,
           <<"t","o","u","r","n","a","m","e","n","t">>,
           <<"a","t","h","l","e","t","i","c">>,
           <<"e","x","e","r","c","i","s","e">>,
           <<"w","o","r","k","o","u","t">>,
           <<"t","r","a","i","n","i","n","g">>>>]>>

generic_mappings ==
    <<
      [term |-> <<"r","u","n">>, activity |-> "sports"],
      [term |-> <<"r","u","n","n","i","n","g">>, activity |-> "sports"],
      [term |-> <<"j","o","g">>, activity |-> "sports"],
      [term |-> <<"j","o","g","g","i","n","g">>, activity |-> "sports"],
      [term |-> <<"p","l","a","y">>, activity |-> "sports"],
      [term |-> <<"p","l","a","y","i","n","g">>, activity |-> "outdoor"],
      [term |-> <<"e","v","e","n","t">>, activity |-> "outdoor"],
      [term |-> <<"p","a","r","t","y">>, activity |-> "outdoor"],
      [term |-> <<"f","e","s","t","i","v","a","l">>, activity |-> "outdoor"],
      [term |-> <<"c","o","n","c","e","r","t">>, activity |-> "outdoor"],
      [term |-> <<"p","h","o","t","o","g","r","a","p","h","y">>, activity |-> "outdoor"],
      [term |-> <<"f","i","s","h","i","n","g">>, activity |-> "outdoor"],
      [term |-> <<"c","a","m","p","i","n","g">>, activity |-> "outdoor"],
      [term |-> <<"c","l","i","m","b","i","n","g">>, activity |-> "hiking"]>>

\* any(keyword in query_lower for keyword in keywords)
AnyKeywordIn(query_lower, keywords) ==
    \E k \in 1..Len(keywords) : Contains(query_lower, keywords[k])

\* The last line returning no profile's key.
detect_activity_no_fallback(query) ==
    LET query_lower == Lower(query)
        first == {i \in 1..Len(activity_keywords) :
                    AnyKeywordIn(query_lower, activity_keywords[i].keywords)}
        second == {i \in 1..Len(generic_mappings) :
                     Contains(query_lower, generic_mappings[i].term)}
    IN  IF first # {}
        THEN activity_keywords[CHOOSE i \in first : \A j \in first : i <= j].activity
        ELSE IF second # {}
        THEN generic_mappings[CHOOSE i \in second : \A j \in second : i <= j].activity
        ELSE "unknown"

\* The generic terms looked up before the activity keywords.
detect_activity_generic_first(query) ==
    LET query_lower == Lower(query)
        first == {i \in 1..Len(activity_keywords) :
                    AnyKeywordIn(query_lower, activity_keywords[i].keywords)}
        second == {i \in 1..Len(generic_mappings) :
                     Contains(query_lower, generic_mappings[i].term)}
    IN  IF second # {}
        THEN generic_mappings[CHOOSE i \in second : \A j \in second : i <= j].activity
        ELSE IF first # {}
        THEN activity_keywords[CHOOSE i \in first : \A j \in first : i <= j].activity
        ELSE "outdoor"

(* The first pass returns at the first entry of activity_keywords one of   *)
(* whose keywords occurs in the lowered query; the second pass at the      *)
(* first entry of generic_mappings whose term occurs in it; "outdoor"      *)
(* otherwise.                                                               *)
detect_activity(query) ==
    LET query_lower == Lower(query)
        first == {i \in 1..Len(activity_keywords) :
                    AnyKeywordIn(query_lower, activity_keywords[i].keywords)}
        second == {i \in 1..Len(generic_mappings) :
                     Contains(query_lower, generic_mappings[i].term)}
    IN  IF first # {}
        THEN activity_keywords[CHOOSE i \in first : \A j \in first : i <= j].activity
        ELSE IF second # {}
        THEN generic_mappings[CHOOSE i \in second : \A j \in second : i <= j].activity
        ELSE "outdoor"

-----------------------------------------------------------------------------
(* detect_activity applied to queries drawn from a bounded set.            *)

\* every keyword of the first table
Keywords ==
    UNION {{activity_keywords[i].keywords[k] :
               k \in 1..Len(activity_keywords[i].keywords)} :
           i \in 1..Len(activity_keywords)}

\* every term of the second table
Terms == {generic_mappings[i].term : i \in 1..Len(generic_mappings)}

\* words of neither table, and words with capitals
OtherWords ==
    {<<"l","e","t","'","s">>,
     <<"g","o">>,
     <<"U","n","d","e","r","w","a","t","e","r">>,
     <<"b","a","s","k","e","t">>,
     <<"w","e","a","v","i","n","g">>,
     <<"S","U","R","F","I","N","G">>,
     <<"P","l","a","y","i","n","g">>,
     <<"t","o","m","o","r","r","o","w">>}

Words == Keywords \cup Terms \cup OtherWords

\* two sentences
LetsGoSurfing ==
    <<"l","e","t","'","s"," ","g","o"," ","s","u","r","f","i","n","g">>

UnderwaterBasketWeaving ==
    <<"u","n","d","e","r","w","a","t","e","r"," ",
      "b","a","s","k","e","t"," ","w","e","a","v","i","n","g">>

\* the activity text of the command line: nothing, one word, two words in
\* either order, or one of two three-word sentences
Queries ==
    {<<>>} \cup Words
    \cup {a \o <<" ">> \o b : a \in Words, b \in Words}
    \cup {LetsGoSurfing, UnderwaterBasketWeaving}

DetectQuery ==
    /\ pc = "start"
    /\ \E query \in Queries :
          frame' = [fn |-> "detect_activity", query |-> query,
                    activity_key |-> detect_activity(query)]
    /\ pc' = "detected"
    /\ UNCHANGED <<ACTIVITY_PROFILES, num_days, forecast, forecasts, utc_offset, prev,
                 requests, stdout, result>>

NextDetect == DetectQuery

SpecDetect == InitScore /\ [][NextDetect]_vars

-----------------------------------------------------------------------------
(* generate_day_recommendation and get_main_concern applied to days drawn  *)
(* from a bounded set.                                                      *)

\* the description the upstream gives with a condition
Describe(condition_main) ==
    CASE condition_main = "Clear" ->
           <<"c","l","e","a","r"," ","s","k","y">>
      [] condition_main = "Clouds" ->
           <<"B","r","o","k","e","n"," ","C","l","o","u","d","s">>
      [] condition_main = "Rain" ->
           <<"l","i","g","h","t"," ","r","a","i","n">>
      [] condition_main = "Snow" ->
           <<"l","i","g","h","t"," ","s","n","o","w">>
      [] condition_main = "Thunderstorm" ->
           <<"t","h","u","n","d","e","r","s","t","o","r","m">>
      [] condition_main = "Drizzle" ->
           <<"l","i","g","h","t"," ","i","n","t","e","n","s","i","t","y"," ",
             "d","r","i","z","z","l","e">>
      [] condition_main = "Mist" ->
           <<"m","i","s","t">>
      [] condition_main = "Fog" ->
           <<"f","o","g">>
      [] OTHER -> <<"h","a","z","e">>

\* the days of DaySet that are calm, dry or drenched, with their description
RecommendDays ==
    {[temp_high_c |-> t, wind_kph |-> w, precip_mm |-> p, precip_probability |-> q,
      condition |-> Describe(c), condition_main |-> c] :
        t \in TempTenths, w \in {0, 350, 1200}, p \in {0, 25, 2000},
        q \in {0, 100}, c \in Conditions}

\* the loop body of analyze_weather_for_activity on one day: its score, then
\* its text
RecommendDay ==
    /\ pc = "start"
    /\ \E key \in DOMAIN ACTIVITY_PROFILES, day \in RecommendDays :
       \E score \in {calculate_activity_score(day, ACTIVITY_PROFILES[key])} :
          frame' = [fn |-> "generate_day_recommendation", key |-> key, day |-> day,
                    score |-> score,
                    rating |-> get_rating_text(score),
                    day_rec |-> generate_day_recommendation(
                                    day, ACTIVITY_PROFILES[key], score)]
    /\ pc' = "recommended"
    /\ UNCHANGED <<ACTIVITY_PROFILES, num_days, forecast, forecasts, utc_offset, prev,
                 requests, stdout, result>>

\* every temperature, wind and amount of DaySet, on a clear day
ConcernDays ==
    {[temp_high_c |-> t, wind_kph |-> w, precip_mm |-> p, precip_probability |-> 0,
      condition |-> Describe("Clear"), condition_main |-> "Clear"] :
        t \in TempTenths, w \in WindTenths, p \in PrecipTenths}

MainConcern ==
    /\ pc = "start"
    /\ \E key \in DOMAIN ACTIVITY_PROFILES, day \in ConcernDays :
          frame' = [fn |-> "get_main_concern", key |-> key, day |-> day,
                    concern |-> get_main_concern(day, ACTIVITY_PROFILES[key])]
    /\ pc' = "concern"
    /\ UNCHANGED <<ACTIVITY_PROFILES, num_days, forecast, forecasts, utc_offset, prev,
                 requests, stdout, result>>

NextRecommend == RecommendDay \/ MainConcern

SpecRecommend == InitScore /\ [][NextRecommend]_vars

-----------------------------------------------------------------------------
(* analyze_weather_for_activity applied to day summaries drawn from a      *)
(* bounded set.                                                             *)

MaxDays == 3

(* The weather of a day: four days the hiking profile scores at exactly    *)
(* 90, 75, 60 and 40; a storm; an ordinary cloudy day.                     *)
AnalysisWeathers ==
    {[temp_high_c |-> -65, wind_kph |-> 0, precip_mm |-> 0,
      precip_probability |-> 0, condition_main |-> "Clear"],
     [temp_high_c |-> -145, wind_kph |-> 0, precip_mm |-> 0,
      precip_probability |-> 100, condition_main |-> "Clear"],
     [temp_high_c |-> -155, wind_kph |-> 0, precip_mm |-> 0,
      precip_probability |-> 0, condition_main |-> "Rain"],
     [temp_high_c |-> -195, wind_kph |-> 0, precip_mm |-> 0,
      precip_probability |-> 100, condition_main |-> "Thunderstorm"],
     [temp_high_c |-> -400, wind_kph |-> 1200, precip_mm |-> 2000,
      precip_probability |-> 100, condition_main |-> "Thunderstorm"],
     [temp_high_c |-> 220, wind_kph |-> 200, precip_mm |-> 10,
      precip_probability |-> 30, condition_main |-> "Clouds"]}

\* the day number of 2026-02-08
FirstDay == 1770584400 \div SecondsPerDay

\* the summary of the i-th day of the forecast with the weather w
AnalysisDay(i, w) ==
    [date |-> isoformat(CivilFromDays(FirstDay + i - 1)),
     date_formatted |-> strftime(FirstDay + i - 1),
     temp_high_c |-> w.temp_high_c, wind_kph |-> w.wind_kph,
     precip_mm |-> w.precip_mm, precip_probability |-> w.precip_probability,
     condition |-> Describe(w.condition_main), condition_main |-> w.condition_main]

\* forecast_data: up to MaxDays summaries of consecutive dates
AnalysisLists ==
    UNION {{[i \in 1..n |-> AnalysisDay(i, ws[i])] : ws \in [1..n -> AnalysisWeathers]} :
           n \in 0..MaxDays}

AnalyzeWeather ==
    /\ pc = "start"
    /\ \E activity_key \in DOMAIN ACTIVITY_PROFILES, forecast_data \in AnalysisLists :
       \E scores \in {ScoresOf(forecast_data, ACTIVITY_PROFILES[activity_key])} :
       \E tie \in {"up", "down"} :
          frame' = [fn |-> "analyze_weather_for_activity",
                    activity_key |-> activity_key,
                    forecast_data |-> forecast_data,
                    scores |-> scores,
                    avg_score |-> MeanOf(scores),
                    analysis |-> analyze_weather_for_activity(
                                     activity_key, forecast_data, tie)]
    /\ pc' = "analyzed"
    /\ UNCHANGED <<ACTIVITY_PROFILES, num_days, forecast, forecasts, utc_offset, prev,
                 requests, stdout, result>>

NextAnalysis == AnalyzeWeather

SpecAnalysis == InitScore /\ [][NextAnalysis]_vars

-----------------------------------------------------------------------------
(* calculate_temperature_score applied twice to the same profile: a first  *)
(* temperature, then a second one.                                          *)

\* every five degrees from -45 to 90, and the tenths next to each profile's
\* ideal range's ends and midpoint
TempGrid ==
    {t \in -450..900 :
        \/ t % 50 = 0
        \/ \E k \in Keys :
              \/ Abs(t - 10 * ProfileTable[k].ideal_temp_range[1]) <= 1
              \/ Abs(t - 10 * ProfileTable[k].ideal_temp_range[2]) <= 1
              \/ Abs(t - 5 * (ProfileTable[k].ideal_temp_range[1]
                              + ProfileTable[k].ideal_temp_range[2])) <= 1}

TempFrame(key, temp) ==
    [fn |-> "calculate_temperature_score", key |-> key, temp |-> temp,
     temp_score |-> calculate_temperature_score(temp, ACTIVITY_PROFILES[key])]

FirstTemp ==
    /\ pc = "start"
    /\ \E key \in DOMAIN ACTIVITY_PROFILES, t \in TempGrid :
          frame' = TempFrame(key, t)
    /\ pc' = "first_temp"
    /\ UNCHANGED <<ACTIVITY_PROFILES, num_days, forecast, forecasts, utc_offset, prev,
                 requests, stdout, result>>

\* all else held fixed, the temperature changes
SecondTemp ==
    /\ pc = "first_temp"
    /\ \E t \in TempGrid : frame' = TempFrame(frame.key, t)
    /\ prev' = frame
    /\ pc' = "second_temp"
    /\ UNCHANGED <<ACTIVITY_PROFILES, num_days, forecast, forecasts, utc_offset,
                 requests, stdout, result>>

NextTemp == FirstTemp \/ SecondTemp

SpecTemp == InitScore /\ [][NextTemp]_vars

-----------------------------------------------------------------------------
(* calculate_precipitation_score applied twice to the same profile: a      *)
(* first day, then the same day with another amount of precipitation.      *)

PrecipDays ==
    [precip_mm : PrecipTenths, precip_probability : ProbPercents,
     condition_main : Conditions]

PrecipFrame(key, day) ==
    [fn |-> "calculate_precipitation_score", key |-> key, day |-> day,
     precip_score |-> calculate_precipitation_score(day, ACTIVITY_PROFILES[key])]

FirstPrecip ==
    /\ pc = "start"
    /\ \E key \in DOMAIN ACTIVITY_PROFILES, day \in PrecipDays :
          frame' = PrecipFrame(key, day)
    /\ pc' = "first_precip"
    /\ UNCHANGED <<ACTIVITY_PROFILES, num_days, forecast, forecasts, utc_offset, prev,
                 requests, stdout, result>>

\* all else held fixed, precip_mm changes
SecondPrecip ==
    /\ pc = "first_precip"
    /\ \E precip \in PrecipTenths :
          frame' = PrecipFrame(frame.key, [frame.day EXCEPT !.precip_mm = precip])
    /\ prev' = frame
    /\ pc' = "second_precip"
    /\ UNCHANGED <<ACTIVITY_PROFILES, num_days, forecast, forecasts, utc_offset,
                 requests, stdout, result>>

NextPrecip == FirstPrecip \/ SecondPrecip

SpecPrecip == InitScore /\ [][NextPrecip]_vars

-----------------------------------------------------------------------------
(* analyze_activity.  The request runs from the activity text to the       *)
(* returned dictionary through two upstream calls, whose answers are the   *)
(* environment's choice; it is followed here from one call to the next.    *)

\* what fetch_json returns for a failed call: a dictionary tagged "error"
FetchErrors ==
    {[error |-> "invalid_api_key", message |-> "Invalid OpenWeatherMap API key."],
     [error |-> "quota_exceeded",
      message |-> "API quota exceeded. Please try again later."],
     [error |-> "api_error", message |-> "API returned status 204"],
     [error |-> "http_error", message |-> "HTTP error 500: Internal Server Error"],
     [error |-> "network_error", message |-> "Network error: timed out"],
     [error |-> "unknown_error", message |-> "Expecting value: line 1 column 1 (char 0)"]}

\* the answers of the geocoding endpoint: a failure, no entry, an entry, an entry
\* without coordinates
GeocodeAnswers ==
    FetchErrors
    \cup {[entries |-> <<>>],
          [entries |-> <<[lat |-> 4886, lon |-> 235, name |-> "Paris"]>>],
          [entries |-> <<[name |-> "Paris"]>>]}

\* the 3-hour samples of an answer of the forecast endpoint
ActivitySamples == {item \in SampleSet : item.temp = 1996 /\ item.dt < 1770692400}

\* the answers of the forecast endpoint: a failure, a list of samples, a list
\* whose items lack the fields the aggregation reads
ForecastAnswers ==
    FetchErrors
    \cup {[list |-> <<>>]}
    \cup {[list |-> <<a>>] : a \in ActivitySamples}
    \cup {[list |-> <<a, b>>] : a \in ActivitySamples, b \in ActivitySamples}
    \cup {[list |-> <<[dt |-> 1770584400]>>]}

\* the activity text of the command line: nothing, a word, a sentence
ActivityQueries ==
    {<<>>} \cup Words
    \cup {LetsGoSurfing, UnderwaterBasketWeaving}

analyze_activity_detect ==
    /\ pc = "start"
    /\ \E activity_query \in ActivityQueries :
          frame' = [fn |-> "analyze_activity", activity_query |-> activity_query,
                    location |-> "Paris",
                    activity_key |-> detect_activity(activity_query)]
    /\ pc' = "detected"
    /\ UNCHANGED <<ACTIVITY_PROFILES, num_days, forecast, forecasts, utc_offset, prev,
                 requests, stdout, result>>

\* the exception handler of analyze_activity
ActivityAnalysisFailed(e) ==
    [error |-> "activity_analysis_failed", message |-> <<"Failed to analyze activity: ", e>>]

(* geocode: a tagged answer or an empty one is printed and the process     *)
(* exits (sys.exit raises SystemExit, which except Exception lets pass);   *)
(* an entry without "lat" raises KeyError, which analyze_activity catches. *)
analyze_activity_geocode ==
    /\ pc = "detected"
    /\ requests' = Append(requests, "geo/1.0/direct")
    /\ \E data \in GeocodeAnswers :
          IF "error" \in DOMAIN data
          THEN /\ stdout' = Append(stdout, data)
               /\ pc' = "exited"
               /\ UNCHANGED <<frame, result>>
          ELSE IF Len(data.entries) = 0
          THEN /\ stdout' = Append(stdout,
                      [error |-> "location_not_found",
                       message |-> <<"Location '", frame.location, "' not found.">>])
               /\ pc' = "exited"
               /\ UNCHANGED <<frame, result>>
          ELSE IF "lat" \notin DOMAIN data.entries[1]
          THEN /\ result' = ActivityAnalysisFailed("'lat'")
               /\ pc' = "returned"
               /\ UNCHANGED <<frame, stdout>>
          ELSE /\ frame' = frame @@ [lat |-> data.entries[1].lat,
                                      lon |-> data.entries[1].lon,
                                      resolved |-> data.entries[1].name]
               /\ pc' = "geocoded"
               /\ UNCHANGED <<stdout, result>>
    /\ UNCHANGED <<ACTIVITY_PROFILES, num_days, forecast, forecasts, utc_offset, prev>>

\* The tagged answer of the forecast endpoint taken for an empty forecast.
analyze_activity_get_forecast_unchecked ==
    /\ pc = "geocoded"
    /\ requests' = Append(requests, "data/2.5/forecast")
    /\ \E data \in ForecastAnswers :
          /\ frame' = frame @@ [forecast |-> data]
          /\ IF "error" \in DOMAIN data
             THEN /\ forecast' = <<>>
                  /\ pc' = "fetched"
                  /\ UNCHANGED result
             ELSE IF \E i \in 1..Len(data.list) : "temp" \notin DOMAIN data.list[i]
             THEN /\ result' = ActivityAnalysisFailed("'main'")
                  /\ pc' = "returned"
                  /\ UNCHANGED forecast
             ELSE /\ forecast' = data.list
                  /\ pc' = "fetched"
                  /\ UNCHANGED result
    /\ UNCHANGED <<ACTIVITY_PROFILES, num_days, forecasts, utc_offset, prev, stdout>>

(* get_forecast, and the test of its answer: a tagged answer is returned   *)
(* as it is.  An item without "main" raises KeyError in the loop of        *)
(* get_multi_day_forecast before any summary is made, which the handler    *)
(* of analyze_activity catches.                                             *)
analyze_activity_get_forecast ==
    /\ pc = "geocoded"
    /\ requests' = Append(requests, "data/2.5/forecast")
    /\ \E data \in ForecastAnswers :
          /\ frame' = frame @@ [forecast |-> data]
          /\ IF "error" \in DOMAIN data
             THEN /\ result' = data
                  /\ pc' = "returned"
                  /\ UNCHANGED forecast
             ELSE IF \E i \in 1..Len(data.list) : "temp" \notin DOMAIN data.list[i]
             THEN /\ result' = ActivityAnalysisFailed("'main'")
                  /\ pc' = "returned"
                  /\ UNCHANGED forecast
             ELSE /\ forecast' = data.list
                  /\ pc' = "fetched"
                  /\ UNCHANGED result
    /\ UNCHANGED <<ACTIVITY_PROFILES, num_days, forecasts, utc_offset, prev, stdout>>

\* analysis.update({...}): the keys added to the analysis
AnalysisUpdate ==
    [location |-> frame.resolved,
     analysis_type |-> "activity_recommendation",
     query |-> frame.activity_query,
     detected_activity |-> frame.activity_key,
     num_days |-> num_days,
     generated_at |-> "datetime.datetime.now().isoformat()"]

\* the analysis of the summaries get_multi_day_forecast returned, and the return
analyze_activity_analyze ==
    /\ pc = "aggregated"
    /\ \E tie \in {"up", "down"} :
       \E analysis \in {analyze_weather_for_activity(frame.activity_key, forecasts, tie)} :
          result' = IF analysis = None
                    THEN [error |-> "analysis_failed",
                          message |-> "Could not analyze weather for this activity"]
                    ELSE AnalysisUpdate @@ analysis
    /\ pc' = "returned"
    /\ UNCHANGED <<ACTIVITY_PROFILES, num_days, forecast, forecasts, utc_offset, frame,
                 prev, requests, stdout>>

NextActivity ==
    \/ analyze_activity_detect
    \/ analyze_activity_geocode
    \/ analyze_activity_get_forecast
    \/ get_multi_day_forecast
    \/ analyze_activity_analyze

SpecActivity == Init /\ [][NextActivity]_vars

-----------------------------------------------------------------------------
(* main.  A run starts with the API key loaded and the command line in     *)
(* sys.argv, and is followed from one upstream call to the next; each call *)
(* is answered by the environment.  What is raised is a value here: a      *)
(* record [raised, text] naming the exception's class and its str().       *)

Raised(class, text) == [raised |-> class, text |-> text]

\* the digits of a text, as numbers; a character that is no digit is -1
DigitValue(c) ==
    IF \E i \in 1..10 : DigitChars[i] = c
    THEN (CHOOSE i \in 1..10 : DigitChars[i] = c) - 1
    ELSE -1

AllDigits(s) == Len(s) >= 1 /\ \A i \in 1..Len(s) : DigitValue(s[i]) >= 0

RECURSIVE Decimal(_)
\* the number a text of digits writes
Decimal(s) ==
    IF s = <<>> THEN 0
    ELSE 10 * Decimal(SubSeq(s, 1, Len(s) - 1)) + DigitValue(s[Len(s)])

\* int(s): the value of an optional sign and digits, or ValueError
int(s) ==
    LET signed == Len(s) >= 1 /\ s[1] \in {"-", "+"}
        digits == IF signed THEN Tail(s) ELSE s
    IN  IF ~AllDigits(digits)
        THEN Raised("ValueError", <<"invalid literal for int() with base 10: '", s, "'">>)
        ELSE [value |-> IF signed /\ s[1] = "-" THEN -Decimal(digits)
                        ELSE Decimal(digits)]

(* datetime.datetime.strptime(s, "%Y-%m-%d").date(): four digits, a month  *)
(* and a day of one or two digits, separated by "-", that name a date of   *)
(* the calendar: the date <<year, month, day>>, or ValueError.             *)
strptime(s) ==
    LET dashes == {i \in 1..Len(s) : s[i] = "-"}
        IsLeap(y) == (y % 4 = 0 /\ y % 100 # 0) \/ y % 400 = 0
        DaysInMonth(y, m) ==
            IF m = 2 THEN (IF IsLeap(y) THEN 29 ELSE 28)
            ELSE IF m \in {4, 6, 9, 11} THEN 30 ELSE 31
        mismatch == Raised("ValueError",
                           <<"time data '", s, "' does not match format '%Y-%m-%d'">>)
    IN  IF Cardinality(dashes) # 2 \/ 5 \notin dashes THEN mismatch
        ELSE LET second == CHOOSE i \in dashes : i # 5
                 year == SubSeq(s, 1, 4)
                 month == SubSeq(s, 6, second - 1)
                 day == SubSeq(s, second + 1, Len(s))
             IN  IF \/ ~AllDigits(year) \/ ~AllDigits(month) \/ ~AllDigits(day)
                    \/ Len(month) > 2 \/ Len(day) > 2
                    \/ Decimal(month) \notin 1..12 \/ Decimal(day) \notin 1..31
                 THEN mismatch
                 ELSE IF \/ Decimal(year) < 1
                         \/ Decimal(day) > DaysInMonth(Decimal(year), Decimal(month))
                 THEN Raised("ValueError", "day is out of range for month")
                 ELSE [date |-> <<Decimal(year), Decimal(month), Decimal(day)>>]

\* the four modes of the command line
Modes ==
    [current |-> <<"c","u","r","r","e","n","t">>,
     forecast |-> <<"f","o","r","e","c","a","s","t">>,
     compare |-> <<"c","o","m","p","a","r","e">>,
     activity |-> <<"a","c","t","i","v","i","t","y">>]

(* The body of the try block of main down to the call of the handler: an   *)
(* exception raised on the way, the call to make (the handler's name and   *)
(* its arguments), or, for an unknown mode that is no location with a      *)
(* date, the result itself.  sys.argv[0] is the script's name: sys.argv[k] *)
(* is argv[k + 1].                                                          *)
Dispatch(argv) ==
    LET mode == Lower(argv[2])
        \* int(sys.argv[k]) if len(sys.argv) > k else 5
        DaysArg(k) == IF Len(argv) > k THEN int(argv[k + 1]) ELSE [value |-> 5]
        InvalidMode ==
            [error |-> "invalid_mode",
             message |-> <<"Unknown mode '", mode,
                           "'. Use: current, forecast, compare, activity">>]
    IN  IF mode = Modes.current
        THEN IF Len(argv) < 3
             THEN Raised("ValueError", "Usage: get_weather.py current <location>")
             ELSE [call |-> "get_current_weather_detailed", location |-> argv[3]]
        ELSE IF mode = Modes.forecast
        THEN IF Len(argv) < 3
             THEN Raised("ValueError", "Usage: get_weather.py forecast <location> [days]")
             ELSE LET days == DaysArg(3)
                  IN  IF "raised" \in DOMAIN days THEN days
                      ELSE [call |-> "get_weather_forecast_detailed",
                            location |-> argv[3], days |-> days.value]
        ELSE IF mode = Modes.compare
        THEN IF Len(argv) < 4
             THEN Raised("ValueError",
                         "Usage: get_weather.py compare <location1> <location2> [days]")
             ELSE LET days == DaysArg(4)
                  IN  IF "raised" \in DOMAIN days THEN days
                      ELSE [call |-> "compare_locations", location |-> argv[3],
                            location2 |-> argv[4], days |-> days.value]
        ELSE IF mode = Modes.activity
        THEN IF Len(argv) < 4
             THEN Raised("ValueError",
                         "Usage: get_weather.py activity <activity_type> <location> [days]")
             ELSE LET days == DaysArg(4)
                  IN  IF "raised" \in DOMAIN days THEN days
                      ELSE [call |-> "analyze_activity", activity_query |-> argv[3],
                            location |-> argv[4], days |-> days.value]
        ELSE IF Len(argv) >= 3
        THEN IF "raised" \in DOMAIN strptime(argv[3])
             THEN InvalidMode
             ELSE [call |-> "get_legacy_weather", location |-> argv[2],
                   target_date |-> argv[3]]
        ELSE InvalidMode

\* the two handlers of main's try block: except ValueError, except Exception
MainExcept(e) ==
    IF e.raised = "ValueError"
    THEN [error |-> "invalid_usage", message |-> e.text]
    ELSE [error |-> "unexpected_error", message |-> <<"An error occurred: ", e.text>>]

\* the handler of each function's own try block: except Exception
Failed(fn, e) ==
    IF fn = "get_current_weather_detailed"
    THEN [error |-> "current_weather_failed",
          message |-> <<"Failed to get current weather: ", e.text>>]
    ELSE IF fn = "get_weather_forecast_detailed"
    THEN [error |-> "forecast_failed", message |-> <<"Failed to get forecast: ", e.text>>]
    ELSE IF fn = "compare_locations"
    THEN [error |-> "comparison_failed",
          message |-> <<"Failed to compare locations: ", e.text>>]
    ELSE IF fn = "analyze_activity"
    THEN ActivityAnalysisFailed(e.text)
    ELSE [error |-> "legacy_weather_failed",
          message |-> <<"Failed to get weather: ", e.text>>]

MaxArgs == 3

(* sys.argv: the script's name, then up to MaxArgs words (modes, a place,  *)
(* an activity, a day count, a word, a date and a date that does not       *)
(* exist), or a comparison or an activity request with its day count (2,   *)
(* 0, -1, a word).                                                          *)
Argvs ==
    LET Paris == <<"P","a","r","i","s">>
        ArgWords ==
            {<<"C","u","r","r","e","n","t">>, Modes.forecast, Modes.compare,
             Modes.activity, Paris, <<"h","i","k","i","n","g">>, <<"2">>,
             <<"s","o","o","n">>,
             <<"2","0","2","6","-","0","2","-","0","9">>,
             <<"2","0","2","6","-","0","2","-","3","0">>}
        DayWords == {<<"2">>, <<"0">>, <<"-","1">>, <<"s","o","o","n">>}
    IN  {<<"get_weather.py">> \o args :
            args \in UNION {[1..n -> ArgWords] : n \in 0..MaxArgs}
                     \cup {<<mode, a, b, days>> :
                              mode \in {Modes.compare, Modes.activity},
                              a \in {Paris, LetsGoSurfing, UnderwaterBasketWeaving},
                              b \in {Paris}, days \in DayWords}}

\* json.load of the body "null"
Null == [null |-> TRUE]

(* geocode, given what fetch_json returned.  sys.exit(1) after the print   *)
(* raises SystemExit, which no except Exception catches: the record        *)
(* [exit, printed] here.                                                    *)
geocode(location, data) ==
    IF data = Null
    THEN Raised("TypeError", "argument of type 'NoneType' is not iterable")
    ELSE IF "error" \in DOMAIN data
    THEN [exit |-> 1, printed |-> data]
    ELSE IF Len(data.entries) = 0
    THEN [exit |-> 1,
          printed |-> [error |-> "location_not_found",
                       message |-> <<"Location '", location, "' not found. Try being",
                                     " more specific (e.g., 'Paris, France' instead of",
                                     " 'Paris').">>]]
    ELSE LET entry == data.entries[1]
         IN  IF "lat" \notin DOMAIN entry THEN Raised("KeyError", "'lat'")
             ELSE IF "lon" \notin DOMAIN entry THEN Raised("KeyError", "'lon'")
             ELSE [lat |-> entry.lat, lon |-> entry.lon,
                   resolved |-> Get(entry, "name", location)]

\* datetime.datetime.utcfromtimestamp(t).isoformat(): YYYY-MM-DDTHH:MM:SS
utc_isoformat(t) ==
    LET seconds == t % SecondsPerDay
    IN  isoformat(CivilFromDays(t \div SecondsPerDay)) \o <<"T">>
        \o TwoDigits(seconds \div 3600) \o <<":">>
        \o TwoDigits((seconds \div 60) % 60) \o <<":">>
        \o TwoDigits(seconds % 60)

\* the answers of the current-weather endpoint: a failure, a report with and
\* without "visibility" (the sun rose at 07:10 and set at 17:00 UTC on
\* 2026-02-08), reports that lack a field or have no "weather" entry, and a
\* body that is no dictionary
WeatherAnswers ==
    LET report == [main |-> [temp |-> 1996, humidity |-> 40, pressure |-> 1013],
                   wind |-> [speed |-> 350],
                   weather |-> <<[main |-> "Clear",
                                  description |-> <<"c","l","e","a","r"," ","s","k","y">>]>>,
                   sys |-> [sunrise |-> 1770534600, sunset |-> 1770570000]]
    IN  FetchErrors
        \cup {report, report @@ [visibility |-> 6250],
              [report EXCEPT !.weather = <<>>],
              [main |-> report.main, wind |-> report.wind, weather |-> report.weather],
              [cod |-> 200],
              Null}

(* The exception that reading the fields of a weather report raises, if    *)
(* any: the keys of first are read in their order, then the first entry of *)
(* "weather", then the keys of last.                                        *)
ReadFailure(data, first, last) ==
    LET FirstMissing(keys) ==
            keys[CHOOSE i \in 1..Len(keys) :
                    /\ keys[i] \notin DOMAIN data
                    /\ \A j \in 1..(i - 1) : keys[j] \in DOMAIN data]
    IN
    IF \E i \in 1..Len(first) : first[i] \notin DOMAIN data
    THEN Raised("KeyError", <<"'", FirstMissing(first), "'">>)
    ELSE IF Len(data.weather) = 0
    THEN Raised("IndexError", "list index out of range")
    ELSE IF \E i \in 1..Len(last) : last[i] \notin DOMAIN data
    THEN Raised("KeyError", <<"'", FirstMissing(last), "'">>)
    ELSE None

(* get_current_weather_detailed after geocode, given what fetch_json       *)
(* returned for the weather: temp_c is the upstream's temperature (in      *)
(* hundredths), temp_f, wind_kph and visibility_km are rounded to one      *)
(* decimal (in tenths); a visibility half way between two tenths that the  *)
(* float holds exactly (x.25, x.75 km) goes to the even one.               *)
get_current_weather_detailed(resolved, weather_data, today, tie) ==
    LET metres == Get(weather_data, "visibility", 10000)
    IN
    IF weather_data = Null
    THEN Raised("TypeError", "argument of type 'NoneType' is not iterable")
    ELSE IF "error" \in DOMAIN weather_data THEN weather_data
    ELSE IF ReadFailure(weather_data, <<"main", "wind", "weather">>, <<"sys">>) # None
    THEN ReadFailure(weather_data, <<"main", "wind", "weather">>, <<"sys">>)
    ELSE [location |-> resolved,
          analysis_type |-> "current_weather",
          date |-> isoformat(today),
          temp_c |-> weather_data.main.temp,
          temp_f |-> Round(9 * weather_data.main.temp + 16000, 50, tie),
          humidity |-> weather_data.main.humidity,
          wind_kph |-> Round(9 * weather_data.wind.speed, 25, tie),
          condition |-> weather_data.weather[1].description,
          condition_main |-> weather_data.weather[1].main,
          pressure_hpa |-> weather_data.main.pressure,
          visibility_km |-> Round(metres, 100,
                                  IF metres % 250 = 0 THEN "even" ELSE tie),
          sunrise_utc |-> utc_isoformat(weather_data.sys.sunrise),
          sunset_utc |-> utc_isoformat(weather_data.sys.sunset),
          generated_at |-> "datetime.datetime.now().isoformat()"]

\* the answers of the forecast endpoint to a run: a failure; no sample, one
\* sample, or a clear evening followed by a second sample, of the same day or
\* the next; an item without the fields read; a body without "list"; a body
\* that is no dictionary
MainForecastAnswers ==
    FetchErrors
    \cup {[list |-> <<>>]}
    \cup {[list |-> <<a>>] : a \in ActivitySamples}
    \cup {[list |-> <<a, b>>] :
             a \in {item \in ActivitySamples :
                       item.dt = 1770584400 /\ item.weather.main = "Clear"},
             b \in ActivitySamples}
    \cup {[list |-> <<[dt |-> 1770584400]>>], [cod |-> "200"], Null}

\* every list get_multi_day_forecast can return for the samples of list: one for
\* each way max() and round() can go
get_multi_day_forecast_returns(list, n, offset) ==
    LET daily_summaries == GroupByDate(list, offset)
        dates == sorted_dates(daily_summaries, n)
        most_common == MostCommon(daily_summaries, dates)
    IN  {Summaries(daily_summaries, dates, most_common_main, tie, offset) :
            tie \in {"up", "down"},
            most_common_main \in
                {f \in [1..Len(dates) -> {"Clear", "Rain"}] :
                    \A i \in 1..Len(dates) : f[i] \in most_common[i]}}

(* What the lines from get_forecast to get_multi_day_forecast give, in     *)
(* each handler that has them: an exception, the tagged answer (which the  *)
(* handler returns), or the samples to summarise.                          *)
ForecastList(data) ==
    IF data = Null
    THEN Raised("TypeError", "argument of type 'NoneType' is not iterable")
    ELSE IF "error" \in DOMAIN data THEN data
    ELSE LET list == Get(data, "list", <<>>)
         IN  IF \E i \in 1..Len(list) : "temp" \notin DOMAIN list[i]
             THEN Raised("KeyError", "'main'")
             ELSE [list |-> list]

(* analyze_comparison.  The averages are of temp_high_c in tenths:         *)
(* avg1 > avg2 + 5 is sum1 / len1 > sum2 / len2 + 50 in tenths; an empty   *)
(* list divides by zero.  A temp_high_c of 0 is left out of the sum.  The  *)
(* list of recommendations returned is the field value.                    *)
analyze_comparison(location1_forecasts, location2_forecasts) ==
    IF Len(location1_forecasts) = 0 \/ Len(location2_forecasts) = 0
    THEN Raised("ZeroDivisionError", "division by zero")
    ELSE LET len1 == Len(location1_forecasts)
             len2 == Len(location2_forecasts)
             sum1 == SumOf([i \in 1..len1 |-> location1_forecasts[i].temp_high_c])
             sum2 == SumOf([i \in 1..len2 |-> location2_forecasts[i].temp_high_c])
             rain_days1 == Cardinality({i \in 1..len1 :
                               location1_forecasts[i].precip_probability > 50})
             rain_days2 == Cardinality({i \in 1..len2 :
                               location2_forecasts[i].precip_probability > 50})
             name1 == location1_forecasts[1].location
             name2 == location2_forecasts[1].location
             warmer ==
                IF sum1 * len2 > sum2 * len1 + 50 * len1 * len2
                THEN <<<<name1, " will be significantly warmer">>>>
                ELSE IF sum2 * len1 > sum1 * len2 + 50 * len1 * len2
                THEN <<<<name2, " will be significantly warmer">>>>
                ELSE <<>>
             rain ==
                IF rain_days1 > rain_days2
                THEN <<<<name2, " has fewer rainy days expected">>>>
                ELSE IF rain_days2 > rain_days1
                THEN <<<<name1, " has fewer rainy days expected">>>>
                ELSE <<>>
         IN  [value |-> IF warmer \o rain = <<>>
                        THEN <<"Both locations have similar weather patterns">>
                        ELSE warmer \o rain]

\* compare_locations from "Add location names" on
compare_locations(resolved1, resolved2, days, forecasts1, forecasts2) ==
    LET \* for f in forecasts: f["location"] = resolved
        WithLocation(summaries, resolved) ==
            [i \in 1..Len(summaries) |-> summaries[i] @@ [location |-> resolved]]
        with1 == WithLocation(forecasts1, resolved1)
        with2 == WithLocation(forecasts2, resolved2)
        recommendations == analyze_comparison(with1, with2)
    IN  IF "raised" \in DOMAIN recommendations THEN recommendations
        ELSE [comparison_type |-> "multi_day",
              num_days |-> days,
              location1 |-> [name |-> resolved1, forecasts |-> with1],
              location2 |-> [name |-> resolved2, forecasts |-> with2],
              recommendations |-> recommendations.value,
              generated_at |-> "datetime.datetime.now().isoformat()"]

\* pick_day: the first item of the list whose local date is the target, or None
pick_day(list, target, offset) ==
    LET matching == {i \in 1..Len(list) : fromtimestamp(list[i].dt, offset) = target}
    IN  IF matching = {} THEN None
        ELSE list[CHOOSE i \in matching : \A j \in matching : i <= j]

(* get_legacy_weather when the target date is today, given what fetch_json *)
(* returned for the weather.                                                *)
get_legacy_weather_today(resolved, target_date, weather_data, tie) ==
    IF weather_data = Null
    THEN Raised("TypeError", "argument of type 'NoneType' is not iterable")
    ELSE IF "error" \in DOMAIN weather_data THEN weather_data
    ELSE IF ReadFailure(weather_data, <<"main", "wind", "weather">>, <<"sys">>) # None
    THEN ReadFailure(weather_data, <<"main", "wind", "weather">>, <<"sys">>)
    ELSE [location |-> resolved,
          date |-> target_date,
          temp_c |-> weather_data.main.temp,
          temp_f |-> Round(9 * weather_data.main.temp + 16000, 50, tie),
          humidity |-> weather_data.main.humidity,
          wind_kph |-> Round(9 * weather_data.wind.speed, 25, tie),
          condition |-> weather_data.weather[1].description,
          precip_mm |-> 0,
          sunrise_utc |-> utc_isoformat(weather_data.sys.sunrise),
          sunset_utc |-> utc_isoformat(weather_data.sys.sunset)]

(* get_legacy_weather for another date, given what fetch_json returned for *)
(* the forecast.  A sample of the model holds item["main"]["temp"] as temp *)
(* and item["weather"][0] as weather; precip_mm is in hundredths.          *)
get_legacy_weather_forecast(resolved, target_date, forecast_answer, offset, tie) ==
    IF forecast_answer = Null
    THEN Raised("TypeError", "argument of type 'NoneType' is not iterable")
    ELSE IF "error" \in DOMAIN forecast_answer THEN forecast_answer
    ELSE LET day == pick_day(Get(forecast_answer, "list", <<>>), strptime(target_date).date,
                             offset)
         IN  IF day = None
             THEN [error |-> "date_not_available",
                   message |-> <<"Forecast not available for ", target_date,
                                 ". 5-day forecast limit.">>]
             ELSE IF "temp" \notin DOMAIN day THEN Raised("KeyError", "'main'")
             ELSE [location |-> resolved,
                   date |-> target_date,
                   temp_c |-> day.temp,
                   temp_f |-> Round(9 * day.temp + 16000, 50, tie),
                   humidity |-> day.humidity,
                   wind_kph |-> Round(9 * day.speed, 25, tie),
                   condition |-> day.weather.description,
                   precip_mm |-> day.rain + day.snow,
                   sunrise_utc |-> None,
                   sunset_utc |-> None]

\* try: ... except Exception as e: return {...} around the body of the handler fn
Try(fn, outcome) == IF "raised" \in DOMAIN outcome THEN Failed(fn, outcome) ELSE outcome

\* SystemExit caught like an Exception: geocode's print is followed by main's.
Conclude_exit_caught(outcome) ==
    IF "exit" \in DOMAIN outcome
    THEN /\ stdout' = stdout \o <<outcome.printed,
                                  MainExcept(Raised("SystemExit", "1"))>>
         /\ pc' = "exited"
         /\ UNCHANGED result
    ELSE IF "raised" \in DOMAIN outcome
    THEN /\ stdout' = Append(stdout, MainExcept(outcome))
         /\ pc' = "exited"
         /\ UNCHANGED result
    ELSE /\ result' = outcome
         /\ stdout' = Append(stdout, outcome)
         /\ pc' = "done"

(* How a run of main ends, given what the called handler did: SystemExit   *)
(* leaves through both try blocks after geocode's print; an exception is   *)
(* printed by main's handler, which exits with status 1; a returned value  *)
(* is printed by line 748 and main returns.                                *)
Conclude(outcome) ==
    IF "exit" \in DOMAIN outcome
    THEN /\ stdout' = Append(stdout, outcome.printed)
         /\ pc' = "exited"
         /\ UNCHANGED result
    ELSE IF "raised" \in DOMAIN outcome
    THEN /\ stdout' = Append(stdout, MainExcept(outcome))
         /\ pc' = "exited"
         /\ UNCHANGED result
    ELSE /\ result' = outcome
         /\ stdout' = Append(stdout, outcome)
         /\ pc' = "done"

InitMain ==
    /\ ACTIVITY_PROFILES = ProfileTable
    /\ pc = "start"
    /\ num_days = 5
    /\ forecast = <<>>
    /\ forecasts = <<>>
    /\ utc_offset \in UtcOffsets
    /\ frame = NoFrame
    /\ prev = NoFrame
    /\ requests = <<>>
    /\ stdout = <<>>
    /\ result = NoResult

(* main from the parsing of the command line to the call of the handler,   *)
(* and, in analyze_activity, to the call of geocode.                       *)
main ==
    /\ pc = "start"
    /\ \E argv \in Argvs :
          IF Len(argv) < 2
          THEN /\ frame' = [fn |-> "main", argv |-> argv, answers |-> <<>>]
               /\ stdout' = Append(stdout,
                      [error |-> "invalid_usage",
                       message |-> <<"Usage: get_weather.py <mode> [args...]",
                                     "\nModes: current, forecast, compare, activity">>])
               /\ pc' = "exited"
               /\ UNCHANGED <<num_days, result>>
          ELSE \E dispatch \in {Dispatch(argv)} :
                  IF "call" \in DOMAIN dispatch
                  THEN /\ frame' =
                            (IF dispatch.call = "analyze_activity"
                             THEN [activity_key |->
                                      detect_activity(dispatch.activity_query)]
                             ELSE <<>>)
                            @@ [fn |-> dispatch.call, argv |-> argv, answers |-> <<>>]
                            @@ dispatch
                       /\ num_days' = Get(dispatch, "days", num_days)
                       /\ pc' = "geocode"
                       /\ UNCHANGED <<stdout, result>>
                  ELSE /\ frame' = [fn |-> "main", argv |-> argv, answers |-> <<>>]
                       /\ Conclude(dispatch)
                       /\ UNCHANGED num_days
    /\ UNCHANGED <<ACTIVITY_PROFILES, forecast, forecasts, utc_offset, prev, requests>>

(* geocode, called by the handler: the first call of a request, or the     *)
(* second one of compare_locations, answered by what fetch_json can return *)
(* or by a null body.  The run starts on 2026-02-08 at 21:00 UTC;          *)
(* get_legacy_weather goes on to compare the target date with today.       *)
main_geocode ==
    /\ pc = "geocode"
    /\ requests' = Append(requests, "geo/1.0/direct")
    /\ \E data \in GeocodeAnswers \cup {Null} :
       \E now \in {1770584400} :
       \E location \in {IF "forecasts1" \in DOMAIN frame THEN frame.location2
                        ELSE frame.location} :
       \E outcome \in {Try(frame.fn, geocode(location, data))} :
          IF "exit" \in DOMAIN outcome \/ "error" \in DOMAIN outcome
          THEN /\ frame' = [frame EXCEPT !.answers = Append(@, data)]
               /\ Conclude(outcome)
          ELSE /\ frame' = outcome @@ [today |-> fromtimestamp(now, utc_offset)]
                                    @@ [frame EXCEPT !.answers = Append(@, data)]
               /\ pc' = IF frame.fn = "get_current_weather_detailed" THEN "weather"
                        ELSE IF frame.fn # "get_legacy_weather" THEN "forecast"
                        ELSE IF strptime(frame.target_date).date
                                    = fromtimestamp(now, utc_offset)
                        THEN "weather"
                        ELSE "forecast"
               /\ UNCHANGED <<stdout, result>>
    /\ UNCHANGED <<ACTIVITY_PROFILES, num_days, forecast, forecasts, utc_offset, prev>>

(* get_current_weather and the rest of its caller, get_current_weather_    *)
(* detailed or get_legacy_weather, then main's print.                      *)
main_get_current_weather ==
    /\ pc = "weather"
    /\ requests' = Append(requests, "data/2.5/weather")
    /\ \E weather_data \in WeatherAnswers :
       \E tie \in {"up", "down"} :
          /\ frame' = [frame EXCEPT !.answers = Append(@, weather_data)]
          /\ Conclude(Try(frame.fn,
                 IF frame.fn = "get_current_weather_detailed"
                 THEN get_current_weather_detailed(frame.resolved, weather_data,
                                                   frame.today, tie)
                 ELSE get_legacy_weather_today(frame.resolved, frame.target_date,
                                               weather_data, tie)))
    /\ UNCHANGED <<ACTIVITY_PROFILES, num_days, forecast, forecasts, utc_offset, prev>>

\* analyze_activity from the analysis of the summaries on
analyze_activity(forecast_data, tie) ==
    LET analysis == analyze_weather_for_activity(frame.activity_key, forecast_data, tie)
    IN  IF analysis = None
        THEN [error |-> "analysis_failed",
              message |-> "Could not analyze weather for this activity"]
        ELSE AnalysisUpdate @@ analysis

\* what the handler does with the summaries of its forecast: the value it
\* returns, an exception, or (after the first forecast of compare_locations)
\* nothing yet
AfterForecast(forecast_data, tie) ==
    IF frame.fn = "get_weather_forecast_detailed"
    THEN [location |-> frame.resolved,
          analysis_type |-> "weather_forecast",
          num_days |-> num_days,
          daily_forecast |-> forecast_data,
          generated_at |-> "datetime.datetime.now().isoformat()"]
    ELSE IF frame.fn = "analyze_activity"
    THEN analyze_activity(forecast_data, tie)
    ELSE IF "forecasts1" \notin DOMAIN frame
    THEN None
    ELSE compare_locations(frame.resolved1, frame.resolved, num_days,
                           frame.forecasts1, forecast_data)

(* get_forecast and the rest of its caller, then main's print; after the   *)
(* first forecast of compare_locations, the summaries are kept and the     *)
(* second location is geocoded.                                             *)
main_get_forecast ==
    /\ pc = "forecast"
    /\ requests' = Append(requests, "data/2.5/forecast")
    /\ \E data \in MainForecastAnswers :
       \E tie \in {"up", "down"} :
          IF frame.fn = "get_legacy_weather"
          THEN /\ frame' = [frame EXCEPT !.answers = Append(@, data)]
               /\ Conclude(Try(frame.fn,
                      get_legacy_weather_forecast(frame.resolved, frame.target_date,
                                                  data, utc_offset, tie)))
               /\ UNCHANGED <<forecast, forecasts>>
          ELSE \E samples \in {ForecastList(data)} :
                  IF "raised" \in DOMAIN samples \/ "error" \in DOMAIN samples
                  THEN /\ frame' = [frame EXCEPT !.answers = Append(@, data)]
                       /\ Conclude(Try(frame.fn, samples))
                       /\ UNCHANGED <<forecast, forecasts>>
                  ELSE /\ forecast' = samples.list
                       /\ forecasts' \in get_multi_day_forecast_returns(samples.list,
                                             num_days, utc_offset)
                       /\ \E outcome \in {AfterForecast(forecasts', tie)} :
                             IF outcome = None
                             THEN /\ frame' =
                                        [forecasts1 |-> forecasts',
                                         resolved1 |-> frame.resolved]
                                        @@ [frame EXCEPT !.answers = Append(@, data)]
                                  /\ pc' = "geocode"
                                  /\ UNCHANGED <<stdout, result>>
                             ELSE /\ frame' = [frame EXCEPT !.answers = Append(@, data)]
                                  /\ Conclude(Try(frame.fn, outcome))
    /\ UNCHANGED <<ACTIVITY_PROFILES, num_days, utc_offset, prev>>

NextMain ==
    \/ main
    \/ main_geocode
    \/ main_get_current_weather
    \/ main_get_forecast

SpecMain == InitMain /\ [][NextMain]_vars

-----------------------------------------------------------------------------
(* Claims about the scorer.                                                *)

(* C1: for every profile of the registry and every day summary,            *)
(* calculate_activity_score returns a value in the closed range [0, 100].  *)
C1_ScoreInRange ==
    pc = "scored" => (0 <= frame.score /\ frame.score <= 100 * ScoreDen)

\* a day so cold and windy that two sub-scores are at their floor is scored
C1_Witness ==
    /\ pc = "scored"
    /\ frame.temp_score = 0
    /\ frame.wind_score = 0
    /\ frame.score > 0

InUnit(x) == 0 <= x /\ x <= ScoreDen

(* C2: for every profile of the registry and every day summary, each of    *)
(* the four sub-scores (temperature, wind, precipitation, condition) lies  *)
(* in [0, 1] before it is multiplied by its factor weight.                 *)
C2_SubScoresInUnit ==
    pc = "scored" =>
        /\ InUnit(frame.temp_score)
        /\ InUnit(frame.wind_score)
        /\ InUnit(frame.precip_score)
        /\ InUnit(frame.condition_score)

\* the floors of the temperature and wind sub-scores and the cap of the snow
\* branch are all reached in one call
C2_Witness ==
    /\ pc = "scored"
    /\ frame.day.temp_high_c < 10 * ACTIVITY_PROFILES[frame.key].ideal_temp_range[1] - 200
    /\ frame.temp_score = 0
    /\ frame.day.wind_kph > 17 * ACTIVITY_PROFILES[frame.key].max_wind_kph
    /\ frame.wind_score = 0
    /\ frame.day.condition_main = "Snow"
    /\ frame.precip_score = ScoreDen

(* C4: get_rating_text maps every score in [0, 100] to exactly one rating, *)
(* with inclusive lower bounds: >= 80 Excellent, [60, 80) Good, [40, 60)   *)
(* Fair, [20, 40) Poor, < 20 Not Recommended.                              *)
C4_RatingBands ==
    pc = "rated" =>
        LET s == frame.score
            r == frame.rating
        IN  /\ (r = "Excellent") <=> (s >= 80 * ScoreDen)
            /\ (r = "Good") <=> (60 * ScoreDen <= s /\ s < 80 * ScoreDen)
            /\ (r = "Fair") <=> (40 * ScoreDen <= s /\ s < 60 * ScoreDen)
            /\ (r = "Poor") <=> (20 * ScoreDen <= s /\ s < 40 * ScoreDen)
            /\ (r = "Not Recommended") <=> (s < 20 * ScoreDen)

\* the score exactly at a threshold is rated with the band above it
C4_Witness ==
    /\ pc = "rated"
    /\ frame.score = 80 * ScoreDen
    /\ frame.rating = "Excellent"

(* C6: wind monotonicity: for every profile and any two wind speeds        *)
(* w1 <= w2 where w2 exceeds the profile's max_wind_kph, the wind          *)
(* sub-score of w2 is at most the wind sub-score of w1.                    *)
C6_WindMonotone ==
    (pc = "second"
      /\ prev.wind_kph <= frame.wind_kph
      /\ frame.wind_kph > 10 * ACTIVITY_PROFILES[frame.key].max_wind_kph)
    => frame.wind_score <= prev.wind_score

\* the first speed is exactly the maximum, the second a tenth beyond it
C6_Witness ==
    /\ pc = "second"
    /\ prev.wind_kph = 10 * ACTIVITY_PROFILES[frame.key].max_wind_kph
    /\ frame.wind_kph = prev.wind_kph + 1
    /\ frame.wind_score < prev.wind_score

(* C13: a day with temp_high_c = 22, wind_kph = 10, precip_mm = 0 and      *)
(* condition_main = "Clear", scored against the hiking profile, gets a     *)
(* score >= 60 (rating "Excellent" or "Good") for every precip_probability *)
(* in 0..100.                                                               *)
C13_HikingExampleDay ==
    (/\ pc = "scored"
     /\ frame.key = "hiking"
     /\ frame.day.temp_high_c = 220
     /\ frame.day.wind_kph = 100
     /\ frame.day.precip_mm = 0
     /\ frame.day.condition_main = "Clear"
     /\ frame.day.precip_probability \in 0..100)
    => /\ frame.score >= 60 * ScoreDen
       /\ get_rating_text(frame.score) \in {"Excellent", "Good"}

\* the example day at the probability that costs it most
C13_Witness ==
    /\ pc = "scored"
    /\ frame.key = "hiking"
    /\ frame.day = [temp_high_c |-> 220, wind_kph |-> 100, precip_mm |-> 0,
                    precip_probability |-> 100, condition_main |-> "Clear"]
    /\ frame.precip_score = 7 * (ScoreDen \div 10)
    /\ frame.score >= 60 * ScoreDen

(* C18 as stated: for the gardening profile the precipitation sub-score is *)
(* determined by the probability rather than by the amount: two days with  *)
(* the same precip_probability and condition but different precip_mm get   *)
(* the same precipitation sub-score.                                        *)
C18_GardeningIgnoresAmount ==
    (/\ pc = "second_precip"
     /\ frame.key = "gardening"
     /\ frame.day.precip_probability = prev.day.precip_probability
     /\ frame.day.condition_main = prev.day.condition_main)
    => frame.precip_score = prev.precip_score

(* C18 amended: for the gardening profile, when precip_probability exceeds *)
(* 70 the precipitation sub-score is determined by the probability alone   *)
(* (0.3 + 0.4 (1 - probability / 100)): two days with the same             *)
(* precip_probability > 70 and condition but different precip_mm get the   *)
(* same sub-score.  At a probability of 70 or less the amount decides: 0.6 *)
(* for a dry day, 0.7 + min(0.2, precip_mm / 10) otherwise.                *)
C18_GardeningAboveSeventy ==
    (/\ pc = "second_precip"
     /\ frame.key = "gardening"
     /\ frame.day.precip_probability = prev.day.precip_probability
     /\ frame.day.condition_main = prev.day.condition_main)
    => /\ frame.day.precip_probability > 70
             => /\ frame.precip_score = prev.precip_score
                /\ 250 * frame.precip_score
                      = (175 - frame.day.precip_probability) * ScoreDen
       /\ (frame.day.precip_probability <= 70 /\ frame.day.precip_mm = 0)
             => 10 * frame.precip_score = 6 * ScoreDen
       /\ (frame.day.precip_probability <= 70 /\ frame.day.precip_mm > 0)
             => 100 * frame.precip_score
                  = (70 + Min(20, frame.day.precip_mm)) * ScoreDen

\* at a probability of 71 a dry day and a day of 200 mm get the same sub-score
C18_Witness ==
    /\ pc = "second_precip"
    /\ frame.key = "gardening"
    /\ frame.day.precip_probability = 71
    /\ prev.day.precip_mm = 0
    /\ frame.day.precip_mm = 2000
    /\ frame.precip_score = prev.precip_score

\* twice the distance of a temperature from the midpoint of the ideal range of
\* the profile under key, in tenths
FromMidpoint(temp, key) ==
    Abs(2 * temp - 10 * (ACTIVITY_PROFILES[key].ideal_temp_range[1]
                         + ACTIVITY_PROFILES[key].ideal_temp_range[2]))

\* temp is on or above the midpoint; on or below it
AboveMidpoint(temp, key) ==
    2 * temp >= 10 * (ACTIVITY_PROFILES[key].ideal_temp_range[1]
                      + ACTIVITY_PROFILES[key].ideal_temp_range[2])

BelowMidpoint(temp, key) ==
    2 * temp <= 10 * (ACTIVITY_PROFILES[key].ideal_temp_range[1]
                      + ACTIVITY_PROFILES[key].ideal_temp_range[2])

SameSide(t1, t2, key) ==
    \/ (AboveMidpoint(t1, key) /\ AboveMidpoint(t2, key))
    \/ (BelowMidpoint(t1, key) /\ BelowMidpoint(t2, key))

InIdealRange(temp, key) ==
    /\ 10 * ACTIVITY_PROFILES[key].ideal_temp_range[1] <= temp
    /\ temp <= 10 * ACTIVITY_PROFILES[key].ideal_temp_range[2]

(* C19: for every profile the temperature sub-score never increases as the *)
(* temperature moves away from the midpoint of the ideal range: for two    *)
(* temperatures t1, t2 on the same side of the midpoint with               *)
(* |t2 - mid| >= |t1 - mid| the score of t2 is at most the score of t1;    *)
(* in particular a temperature outside the ideal range never scores higher *)
(* than a temperature inside it.                                            *)
C19_TemperatureMonotone ==
    pc = "second_temp" =>
        /\ (SameSide(prev.temp, frame.temp, frame.key)
             /\ FromMidpoint(frame.temp, frame.key) >= FromMidpoint(prev.temp, frame.key))
            => frame.temp_score <= prev.temp_score
        /\ (InIdealRange(prev.temp, frame.key) /\ ~InIdealRange(frame.temp, frame.key))
            => frame.temp_score <= prev.temp_score

-----------------------------------------------------------------------------
(* Claims about the registry and the aggregation.                          *)

WeightSum(profile) ==
    profile.factors.temperature + profile.factors.wind
    + profile.factors.precipitation + profile.factors.conditions

(* C3: for every profile in the registry (skiing, picnic, hiking,          *)
(* gardening, beach, cycling, outdoor, sports) the four factor weights add *)
(* up to exactly 1.0, and no operation of the program changes the          *)
(* registry: in every state it is the table the module was loaded with.    *)
C3_WeightsSumToOne ==
    /\ DOMAIN ACTIVITY_PROFILES = Keys
    /\ \A k \in Keys : WeightSum(ACTIVITY_PROFILES[k]) = 100
    /\ ACTIVITY_PROFILES = ProfileTable

\* a day has been scored against the cycling profile read from the registry
C3_Witness ==
    /\ pc = "scored"
    /\ frame.key = "cycling"
    /\ WeightSum(ACTIVITY_PROFILES[frame.key]) = 100
    /\ frame.score > 0

\* the local day numbers of the samples
SampleDays == {LocalDay(forecast[i].dt, utc_offset) : i \in 1..Len(forecast)}

\* the i-th earliest of them
NthDay(i) ==
    CHOOSE d \in SampleDays : Cardinality({e \in SampleDays : e < d}) = i - 1

\* the temperatures (hundredths) of the samples whose calendar date is date
TempsOn(date) ==
    {forecast[i].temp : i \in {j \in 1..Len(forecast) :
                                  date_str(forecast[j], utc_offset) = date}}

SamplesOn(date) ==
    {i \in 1..Len(forecast) : date_str(forecast[i], utc_offset) = date}

(* C7 as stated: for every day summary, temp_high_c is >= the temperature  *)
(* of every input sample of that date and temp_low_c is <= the temperature *)
(* of every such sample (with high = low when the date has one sample).    *)
(* Stated for the positive day counts the aggregator is specified for.     *)
C7_HighLowBoundSamples ==
    (pc = "aggregated" /\ num_days > 0) =>
        \A n \in 1..Len(forecasts) :
            /\ \A t \in TempsOn(forecasts[n].date) :
                  /\ 10 * forecasts[n].temp_high_c >= t
                  /\ 10 * forecasts[n].temp_low_c <= t
            /\ Cardinality(SamplesOn(forecasts[n].date)) = 1
                  => forecasts[n].temp_high_c = forecasts[n].temp_low_c

(* C7 amended: temp_high_c and temp_low_c are the largest and the smallest *)
(* sample temperature of the date rounded to one decimal, so temp_high_c   *)
(* is >= every sample's temperature less 0.05 and within 0.05 of the       *)
(* largest, temp_low_c is <= every sample's temperature plus 0.05 and      *)
(* within 0.05 of the smallest, and high = low when the date has a single  *)
(* sample.                                                                  *)
C7_HighLowRounded ==
    pc = "aggregated" =>
        \A n \in 1..Len(forecasts) :
            /\ \A t \in TempsOn(forecasts[n].date) :
                  /\ 10 * forecasts[n].temp_high_c >= t - 5
                  /\ 10 * forecasts[n].temp_low_c <= t + 5
            /\ \E t \in TempsOn(forecasts[n].date) :
                  10 * forecasts[n].temp_high_c <= t + 5
            /\ \E t \in TempsOn(forecasts[n].date) :
                  10 * forecasts[n].temp_low_c >= t - 5
            /\ Cardinality(SamplesOn(forecasts[n].date)) = 1
                  => forecasts[n].temp_high_c = forecasts[n].temp_low_c

\* a date with a warmer and a colder sample, the colder one first: the high is
\* the warmer sample's 20.14 rounded down to 20.1, the low the colder sample's
\* 19.96 rounded up to 20.0
C7_Witness ==
    /\ pc = "aggregated"
    /\ Len(forecasts) >= 1
    /\ Len(forecast) >= 2
    /\ date_str(forecast[1], utc_offset) = forecasts[1].date
    /\ date_str(forecast[2], utc_offset) = forecasts[1].date
    /\ forecast[1].temp = 1996
    /\ forecast[2].temp = 2014
    /\ forecasts[1].temp_high_c = 201
    /\ forecasts[1].temp_low_c = 200

\* the summaries are those of the first count dates present, earliest first
EarliestDates(count) ==
    /\ Len(forecasts) = count
    /\ \A i \in 1..count :
          forecasts[i].date = isoformat(CivilFromDays(NthDay(i)))

(* C8: aggregation truncation: for any sample sequence, in any order,      *)
(* spanning M distinct calendar dates and any requested positive day count *)
(* N <= M, get_multi_day_forecast returns exactly N summaries, one per     *)
(* date, for the N earliest dates present, in strictly ascending date      *)
(* order.                                                                   *)
C8_Truncation ==
    (pc = "aggregated" /\ num_days > 0 /\ num_days <= Cardinality(SampleDays))
    => EarliestDates(num_days)

\* three dates arrive latest first and two days are requested
C8_Witness ==
    /\ pc = "aggregated"
    /\ num_days = 2
    /\ Cardinality(SampleDays) = 3
    /\ Len(forecast) = 3
    /\ forecast[1].dt > forecast[2].dt
    /\ forecast[2].dt > forecast[3].dt
    /\ Len(forecasts) = 2

(* C9: when the samples span fewer distinct dates M than the requested day *)
(* count N, get_multi_day_forecast returns all M available summaries,      *)
(* earliest first, and reports no error: what it returns is the list of    *)
(* the M summaries, never a shorter or an empty one.                       *)
C9_FewerDatesThanRequested ==
    (pc = "aggregated" /\ Cardinality(SampleDays) < num_days)
    => EarliestDates(Cardinality(SampleDays))

\* five days are requested of samples on two dates, the later date first
C9_Witness ==
    /\ pc = "aggregated"
    /\ num_days = 5
    /\ Cardinality(SampleDays) = 2
    /\ forecast[1].dt > forecast[Len(forecast)].dt
    /\ Len(forecasts) = 2

\* the conditions of the samples of a date, in sample order
MainsOn(date) ==
    LET idx == SamplesOn(date)
        nth(k) == CHOOSE i \in idx : Cardinality({j \in idx : j < i}) = k - 1
    IN  [k \in 1..Cardinality(idx) |-> forecast[nth(k)].weather.main]

\* of the conditions with the largest count, the one that occurs first
FirstMostCommon(mains) ==
    mains[CHOOSE i \in 1..Len(mains) :
             /\ mains[i] \in MostCommonMains(mains)
             /\ \A j \in 1..(i - 1) : mains[j] \notin MostCommonMains(mains)]

(* C10: for each date, condition_main is a condition with the highest      *)
(* occurrence count among that date's samples, and when several conditions *)
(* tie for the highest count the one encountered first in sample order is  *)
(* the one reported.  Stated for the positive day counts the aggregator is *)
(* specified for.                                                           *)
C10_DominantFirstEncountered ==
    (pc = "aggregated" /\ num_days > 0) =>
        \A n \in 1..Len(forecasts) :
            forecasts[n].condition_main = FirstMostCommon(MainsOn(forecasts[n].date))

-----------------------------------------------------------------------------
(* Claims about detect_activity.                                           *)

\* the activities in the order the keyword table declares them
DeclarationOrder ==
    <<"skiing", "picnic", "hiking", "gardening", "beach", "cycling", "outdoor",
      "sports">>

\* the query contains a keyword the table lists for the activity
Mentions(query, activity) ==
    \E i \in 1..Len(activity_keywords) :
        /\ activity_keywords[i].activity = activity
        /\ \E keyword \in Keywords :
              /\ \E k \in 1..Len(activity_keywords[i].keywords) :
                    activity_keywords[i].keywords[k] = keyword
              /\ Contains(Lower(query), keyword)

(* C11: a query that contains keywords of one or more activities of the    *)
(* keyword table resolves to the first such activity in declaration order  *)
(* (skiing, picnic, hiking, gardening, beach, cycling, outdoor, sports),   *)
(* whatever generic terms it also contains; "let's go surfing" resolves to *)
(* beach.                                                                   *)
C11_KeywordOrder ==
    pc = "detected" =>
        /\ \A i \in 1..Len(DeclarationOrder) :
              (/\ Mentions(frame.query, DeclarationOrder[i])
               /\ \A j \in 1..(i - 1) : ~Mentions(frame.query, DeclarationOrder[j]))
              => frame.activity_key = DeclarationOrder[i]
        /\ frame.query = LetsGoSurfing
              => frame.activity_key = "beach"

\* "climbing bike": a generic term (for hiking) ahead of a keyword of cycling,
\* resolved by the keyword
C11_Witness ==
    /\ pc = "detected"
    /\ frame.query = <<"c","l","i","m","b","i","n","g"," ","b","i","k","e">>
    /\ frame.activity_key = "cycling"

(* C20: every entry of the generic term table is effective: a query that   *)
(* consists of exactly a term of the table (run, running, jog, jogging,    *)
(* play, playing, event, party, festival, concert, photography, fishing,   *)
(* camping, climbing) resolves to the category the table lists for it.     *)
C20_GenericTermsEffective ==
    pc = "detected" =>
        \A i \in 1..Len(generic_mappings) :
            frame.query = generic_mappings[i].term
            => frame.activity_key = generic_mappings[i].activity

-----------------------------------------------------------------------------
(* Claims about the texts.                                                 *)

\* text begins with opening
StartsWith(text, opening) ==
    /\ Len(text) >= Len(opening)
    /\ SubSeq(text, 1, Len(opening)) = opening

\* how the texts and the concerns begin
ExcellentText ==
    <<"E","x","c","e","l","l","e","n","t"," ","c","o","n","d","i","t","i","o","n","s","!">>

GoodText == <<"G","o","o","d"," ","c","o","n","d","i","t","i","o","n","s",".">>

FairText == <<"F","a","i","r"," ","c","o","n","d","i","t","i","o","n","s",".">>

NotRecommendedText == <<"N","o","t"," ","r","e","c","o","m","m","e","n","d","e","d",".">>

TooCold == <<"t","o","o"," ","c","o","l","d">>

TooHot == <<"t","o","o"," ","h","o","t">>

RainExpected == <<"r","a","i","n"," ","e","x","p","e","c","t","e","d">>

TooWindy == <<"t","o","o"," ","w","i","n","d","y">>

Marginal == <<"m","a","r","g","i","n","a","l"," ","c","o","n","d","i","t","i","o","n","s">>

(* C15: the per-day recommendation text is selected by the same score      *)
(* bands as the rating (an "Excellent", a "Good", a "Fair" text for those  *)
(* ratings, the "Not recommended" text below them), and for every day      *)
(* whose score is below the "Excellent" threshold (score < 80) the text    *)
(* cites the dominant limiting factor computed by get_main_concern.        *)
C15_RecommendationCitesConcern ==
    pc = "recommended" =>
        /\ frame.rating = "Excellent"
              <=> StartsWith(frame.day_rec, ExcellentText)
        /\ frame.rating = "Good"
              <=> StartsWith(frame.day_rec, GoodText)
        /\ frame.rating = "Fair"
              <=> StartsWith(frame.day_rec, FairText)
        /\ frame.rating \in {"Poor", "Not Recommended"}
              <=> StartsWith(frame.day_rec, NotRecommendedText)
        /\ frame.score < 80 * ScoreDen
              => Contains(frame.day_rec,
                          get_main_concern(frame.day, ACTIVITY_PROFILES[frame.key]))

\* the bounds of the profile the concern was reported for
ColdFor(day, profile) == day.temp_high_c < 10 * profile.ideal_temp_range[1]

HotFor(day, profile) == day.temp_high_c > 10 * profile.ideal_temp_range[2]

\* a profile that names no max rain accepts none
WetFor(day, profile) ==
    day.precip_mm > 10 * (IF "max_precip_rain" \in DOMAIN profile
                          THEN profile.max_precip_rain ELSE 0)

WindyFor(day, profile) == day.wind_kph > 10 * profile.max_wind_kph

(* C15 amended: the text is selected by the score bands of the rating, and *)
(* for every day whose score is below the "Good" threshold (score < 60)    *)
(* the text cites the dominant limiting factor computed by                 *)
(* get_main_concern; the "Excellent" and "Good" texts (score >= 60) cite   *)
(* the day's temperature and its condition in lower case instead.          *)
C15_CitesConcernBelowGood ==
    pc = "recommended" =>
        /\ frame.rating = "Excellent" <=> StartsWith(frame.day_rec, ExcellentText)
        /\ frame.rating = "Good" <=> StartsWith(frame.day_rec, GoodText)
        /\ frame.rating = "Fair" <=> StartsWith(frame.day_rec, FairText)
        /\ frame.rating \in {"Poor", "Not Recommended"}
              <=> StartsWith(frame.day_rec, NotRecommendedText)
        /\ frame.score < 60 * ScoreDen
              => Contains(frame.day_rec,
                          get_main_concern(frame.day, ACTIVITY_PROFILES[frame.key]))
        /\ frame.score >= 60 * ScoreDen
              => /\ Contains(frame.day_rec,
                             StrTenths(frame.day.temp_high_c) \o <<"°","C">>)
                 /\ Contains(frame.day_rec, Lower(frame.day.condition))

\* a "Fair" day that is too windy, and says so
C15_Witness ==
    /\ pc = "recommended"
    /\ frame.rating = "Fair"
    /\ WindyFor(frame.day, ACTIVITY_PROFILES[frame.key])
    /\ Contains(frame.day_rec, TooWindy)

(* C17: get_main_concern checks the comfort bounds in the fixed priority   *)
(* order temperature, precipitation, wind: it reports a temperature        *)
(* concern whenever temp_high_c is outside the ideal range, whatever the   *)
(* precipitation and the wind; the precipitation concern only when the     *)
(* temperature is in range and precip_mm exceeds the max rain; the wind    *)
(* concern only when temperature and precipitation are within bounds and   *)
(* the wind exceeds the max wind; "marginal conditions" only when no bound *)
(* is violated.                                                             *)
C17_ConcernPriority ==
    pc = "concern" =>
        LET day == frame.day
            profile == ACTIVITY_PROFILES[frame.key]
            in_range == ~ColdFor(day, profile) /\ ~HotFor(day, profile)
        IN  /\ ColdFor(day, profile) => StartsWith(frame.concern, TooCold)
            /\ HotFor(day, profile) => StartsWith(frame.concern, TooHot)
            /\ StartsWith(frame.concern, RainExpected)
                  => in_range /\ WetFor(day, profile)
            /\ StartsWith(frame.concern, TooWindy)
                  => in_range /\ ~WetFor(day, profile) /\ WindyFor(day, profile)
            /\ frame.concern = Marginal
                  => in_range /\ ~WetFor(day, profile) /\ ~WindyFor(day, profile)

\* a day too cold, too wet and too windy at once is reported as too cold
C17_Witness ==
    /\ pc = "concern"
    /\ ColdFor(frame.day, ACTIVITY_PROFILES[frame.key])
    /\ WetFor(frame.day, ACTIVITY_PROFILES[frame.key])
    /\ WindyFor(frame.day, ACTIVITY_PROFILES[frame.key])
    /\ StartsWith(frame.concern, TooCold)

\* the openings of the period's texts
GreatPeriod == <<"G","r","e","a","t"," ","p","e","r","i","o","d">>

GoodPeriod == <<"G","o","o","d"," ","p","e","r","i","o","d">>

MixedConditions == <<"M","i","x","e","d"," ","c","o","n","d","i","t","i","o","n","s">>

PoorPeriod == <<"P","o","o","r"," ","p","e","r","i","o","d">>

\* the sum of the daily scores of the analysis in frame
TotalOfScores == SumOf(frame.scores)

\* the arithmetic mean of those scores (0 for none) is at least points
MeanScoreAtLeast(points) ==
    IF Len(frame.scores) = 0 THEN 0 >= points
    ELSE TotalOfScores >= points * ScoreDen * Len(frame.scores)

-----------------------------------------------------------------------------
(* Claims about analyze_activity.                                          *)

\* the query contains no keyword of the first table and no term of the second
MatchesNeitherTable(query) ==
    \A word \in Keywords \cup Terms : ~Contains(Lower(query), word)

(* C12: for every query, detect_activity returns a key that exists in      *)
(* ACTIVITY_PROFILES, and "outdoor" when neither table matches (as for     *)
(* "underwater basket weaving"); consequently the analysis of the detected *)
(* key is never None: a request that returns no error returns the          *)
(* analysis, and analyze_activity never returns the "analysis_failed"      *)
(* error.                                                                   *)
C12_AlwaysAProfile ==
    /\ pc # "start" =>
          /\ frame.activity_key \in DOMAIN ACTIVITY_PROFILES
          /\ frame.activity_query = UnderwaterBasketWeaving
                => frame.activity_key = "outdoor"
    /\ pc = "detected" =>
          (MatchesNeitherTable(frame.activity_query) => frame.activity_key = "outdoor")
    /\ pc = "returned" =>
          IF "error" \in DOMAIN result
          THEN result.error # "analysis_failed"
          ELSE "daily_analysis" \in DOMAIN result

\* "underwater basket weaving" was analysed with the outdoor profile
C12_Witness ==
    /\ pc = "returned"
    /\ frame.activity_query = UnderwaterBasketWeaving
    /\ frame.activity_key = "outdoor"
    /\ "error" \notin DOMAIN result
    /\ result.detected_activity = "outdoor"
    /\ result.activity = ACTIVITY_PROFILES["outdoor"].name
    /\ Len(result.daily_analysis) >= 1

(* C14: a failure at the fetch stage aborts scoring: if geocoding fails    *)
(* the run ends with a tagged error before any forecast is fetched, and if *)
(* the forecast fetch returns an error-tagged result then that tagged      *)
(* error is the whole result, with no aggregation or scoring performed and *)
(* no score, rating or daily_analysis fields in the output; no request is  *)
(* made twice.                                                              *)
C14_FetchFailureAborts ==
    /\ pc = "exited" =>
          /\ requests = <<"geo/1.0/direct">>
          /\ Len(stdout) = 1
          /\ {"error", "message"} \subseteq DOMAIN stdout[1]
          /\ result = NoResult
          /\ forecast = <<>>
          /\ forecasts = <<>>
    /\ (/\ pc = "returned"
        /\ "forecast" \in DOMAIN frame
        /\ "error" \in DOMAIN frame.forecast) =>
          /\ result = frame.forecast
          /\ {"error", "message"} \subseteq DOMAIN result
          /\ DOMAIN result \cap {"overall_score", "overall_rating", "best_day",
                                  "daily_analysis", "overall_recommendation"} = {}
          /\ forecast = <<>>
          /\ forecasts = <<>>
          /\ requests = <<"geo/1.0/direct", "data/2.5/forecast">>
    /\ \A i, j \in 1..Len(requests) : requests[i] = requests[j] => i = j

\* the forecast endpoint answered that the quota is used up, and that is what
\* the request returned
C14_Witness ==
    /\ pc = "returned"
    /\ "forecast" \in DOMAIN frame
    /\ "error" \in DOMAIN frame.forecast
    /\ frame.forecast.error = "quota_exceeded"
    /\ result = frame.forecast
    /\ Len(requests) = 2

-----------------------------------------------------------------------------
(* Claims about main.                                                      *)

\* the run is over: main returned, or the process exited with status 1
Terminated == pc \in {"done", "exited"}

\* a JSON object: a dictionary, whose keys are strings
IsObject(value) == \A key \in DOMAIN value : key \in STRING

\* the command line names no handler to call: too few arguments, a day count
\* that is no integer, or an unknown mode
BadCommandLine ==
    \/ Len(frame.argv) < 2
    \/ "call" \notin DOMAIN Dispatch(frame.argv)

\* an upstream call failed, found no location, or answered with no JSON
\* dictionary or list
UpstreamFailed ==
    \E i \in 1..Len(frame.answers) :
        frame.answers[i] \in FetchErrors \cup {[entries |-> <<>>], Null}

\* what the run tells its caller: exit status 1, or an object tagged "error"
ReportsFailure ==
    \/ pc = "exited"
    \/ "error" \in DOMAIN stdout[1]

(* C21: once an API key is loaded, every run of main, for any command line *)
(* and any outcome of the upstream calls (success, HTTP or network error,  *)
(* empty geocoding result, exception while processing), prints exactly one *)
(* JSON object to stdout before terminating: nothing is printed while the  *)
(* run goes on, and a run that is over has printed one object (what the    *)
(* handler returned, when main returns).  Whenever the run reports a       *)
(* failure, or a call failed, or the command line was wrong, that object   *)
(* is a tagged result carrying both "error" and "message"; no error        *)
(* escapes as an uncaught exception, which would end the run with nothing  *)
(* printed.                                                                 *)
C21_OneTaggedObject ==
    /\ Len(stdout) <= 1
    /\ Terminated <=> Len(stdout) = 1
    /\ Terminated =>
          /\ IsObject(stdout[1])
          /\ pc = "done" => result = stdout[1]
          /\ (ReportsFailure \/ UpstreamFailed \/ BadCommandLine)
                => {"error", "message"} \subseteq DOMAIN stdout[1]

\* a comparison over no days: both locations were found and both forecasts
\* fetched, the division by zero inside analyze_comparison was caught by
\* compare_locations, and main printed the tagged result and returned
C21_Witness ==
    /\ pc = "done"
    /\ frame.fn = "compare_locations"
    /\ num_days = 0
    /\ requests = <<"geo/1.0/direct", "data/2.5/forecast",
                    "geo/1.0/direct", "data/2.5/forecast">>
    /\ ~UpstreamFailed
    /\ stdout = <<result>>
    /\ result.error = "comparison_failed"
    /\ result.message = <<"Failed to compare locations: ", "division by zero">>

====
